---- MODULE Spec2Model ----
(***************************************************************************)
(* WaveBlocksND: the gradient stencil of a Hagedorn wavepacket             *)
(* (GradientHAWP.apply_gradient_component) over a basis shape and its      *)
(* one-step extension.                                                     *)
(*                                                                         *)
(* A node is a D-tuple of naturals; the code's 0-based dimension d is the  *)
(* tuple's entry d + 1.  A row of the result array cnew is a D-vector that *)
(* is a linear combination of the vectors p, w*sqrt(n)*Pbar[:, d] and      *)
(* w*sqrt(n)*P[:, d] (w = sqrt(eps**2 / 2)); the model keeps the row as    *)
(* that combination: a function from the key <<name, d, n>> to the         *)
(* accumulated coefficient, without the keys whose coefficient is zero.    *)
(***************************************************************************)
EXTENDS Integers, Sequences, FiniteSets, TLC

\* Largest per-axis limit of a hyper-rectangular input shape.
MaxLimit == 3
\* Source coefficients are drawn from 0 .. MaxCoeff.
MaxCoeff == 1

\* Dimensions D of the input wavepackets.
Dimensions == {1, 2}
\* How many times an input shape has already been extended.
Generations == {0, 1}
\* At most this many populated rows in an input coefficient array.
Populated == {1, 2}

VARIABLES
    base,     \* the family shape the wavepacket's shape descends from
    packet,   \* the wavepacket component: [K |-> basis shape, coeffs |-> array]
    pc,       \* position of the call: idle, loop, done, failed, observed
    K,        \* local K  (line 44)
    Ke,       \* local Ke (line 45)
    coeffs,   \* local coeffs (line 41): the wavepacket's own array object
    cnew,     \* local cnew (line 47): [shape |-> <<size, D>>, rows |-> array]
    it,       \* the nodes K.get_node_iterator() has still to yield (line 50)
    log,      \* history: every executed "cnew[...] +=" as <<kind, k, d, nb>>
    err,      \* the exception that ended the call, or "none"
    result,   \* what the call returned: <<Ke, cnew>>, or <<>> before it returns
    ekin,     \* what kinetic_energy computed from the result, or <<>>
    before,   \* history: the wavepacket as it was when the call was entered
    lk,       \* a single position lookup on a shape
    cc,       \* calls of apply_gradient_component that share one shape
    io,       \* the wavepacket group of one data block of the IOManager
    pp,       \* a ParameterProvider and the global defaults
    sl        \* a SimulationLoopFourier in run_simulation

\* The state of apply_gradient_component and of its caller.
gvars == <<base, packet, pc, K, Ke, coeffs, cnew, it, log, err, result,
           ekin, before>>

vars == <<gvars, lk, cc, io, pp, sl>>

\* The value of the variable of a part of the program that a specification
\* does not run.
Unused == [status |-> "unused"]

----------------------------------------------------------------------------
(* Basis shapes (MultiIndexShape)                                          *)

Dims(D) == 0 .. (D - 1)

NodeAdd(k, d) == [k EXCEPT ![d + 1] = @ + 1]

NodeSub(k, d) == [k EXCEPT ![d + 1] = @ - 1]

\* The canonical (lexicographic) order of the nodes.
LexLess(a, b) ==
    \E i \in DOMAIN a : a[i] < b[i] /\ \A j \in 1 .. (i - 1) : a[j] = b[j]

\* The linear mapping k -> index of a node set.
LinearMapping(nodes) ==
    [k \in nodes |-> Cardinality({m \in nodes : LexLess(m, k)})]

\* A shape: its dimension, its nodes, and the node -> linear index mapping.
BasisShape(D, nodes) ==
    [D |-> D, nodes |-> nodes, lima |-> LinearMapping(nodes)]

NoShape == [D |-> 0, nodes |-> {}, lima |-> [k \in {} |-> 0]]

contains(shape, k) == k \in shape.nodes

get_basis_size(shape) == Cardinality(shape.nodes)

\* Mutant of getitem: a missing node is entered into the position map with
\* the next free index, which is returned.
getitemInsert(shape, k) ==
    IF contains(shape, k)
    THEN [out |-> [kind |-> "index", value |-> shape.lima[k]], shape |-> shape]
    ELSE [out |-> [kind |-> "index", value |-> get_basis_size(shape)],
          shape |-> [shape EXCEPT
                       !.nodes = @ \cup {k},
                       !.lima = [n \in shape.nodes \cup {k} |->
                                   IF n = k THEN get_basis_size(shape)
                                   ELSE shape.lima[n]]]]

\* shape[k], the position lookup: the linear index of a node of the shape,
\* a KeyError for any other node; the shape after the lookup is the shape.
getitem(shape, k) ==
    IF contains(shape, k)
    THEN [out |-> [kind |-> "index", value |-> shape.lima[k]], shape |-> shape]
    ELSE [out |-> [kind |-> "KeyError"], shape |-> shape]

\* The nodes in canonical order.
get_node_iterator(shape) ==
    [i \in 1 .. Cardinality(shape.nodes) |->
        CHOOSE k \in shape.nodes : shape.lima[k] = i - 1]

RECURSIVE NodeSum(_, _)
NodeSum(k, i) == IF i = 0 THEN 0 ELSE k[i] + NodeSum(k, i - 1)

\* The hyper-rectangular family: 0 <= k[d] < limits[d].
HyperCubicShape(limits) ==
    BasisShape(Len(limits),
               {k \in [1 .. Len(limits) -> 0 .. (MaxLimit - 1)] :
                    \A i \in 1 .. Len(limits) : k[i] < limits[i]})

\* The simplex-limited family: k[0] + ... + k[D-1] <= Kmax.
SimplexShape(D, Kmax) ==
    BasisShape(D, {k \in [1 .. D -> 0 .. Kmax] : NodeSum(k, D) <= Kmax})

\* Mutant of extend: the bounding box of the shape grown by one per axis.
extendBox(shape) ==
    BasisShape(shape.D,
               {k \in [1 .. shape.D -> 0 .. (MaxLimit + 2)] :
                    \A i \in 1 .. shape.D : \E m \in shape.nodes : k[i] <= m[i] + 1})

\* extend: for every node k, in canonical order, and every dimension d add
\* k + e_d unless it is already present.
RECURSIVE ExtendNodes(_, _, _)
ExtendNodes(todo, D, acc) ==
    IF todo = <<>> THEN acc
    ELSE ExtendNodes(Tail(todo), D,
                     acc \cup ({NodeAdd(Head(todo), d) : d \in Dims(D)} \ acc))

extend(shape) ==
    BasisShape(shape.D, ExtendNodes(get_node_iterator(shape), shape.D, shape.nodes))

\* get_neighbours: the <<d, neighbour>> pairs present in the shape, by
\* increasing d.  Backward: k - e_d where k[d] > 0; forward: k + e_d.
get_neighbours(shape, k, selection) ==
    LET cand == [i \in 1 .. shape.D |->
                    <<i - 1, IF selection = "backward"
                             THEN NodeSub(k, i - 1) ELSE NodeAdd(k, i - 1)>>]
    IN  SelectSeq(cand, LAMBDA e :
            /\ selection = "backward" => k[e[1] + 1] > 0
            /\ e[2] \in shape.nodes)

----------------------------------------------------------------------------
(* Coefficient rows                                                        *)

ZeroRow == [x \in {} |-> 0]

\* row + c * (the vector named key); sqrt(0) and c = 0 add the zero vector.
RowAdd(row, key, c) ==
    IF c = 0 \/ key[3] = 0 THEN row
    ELSE IF key \in DOMAIN row THEN [row EXCEPT ![key] = @ + c]
    ELSE row @@ (key :> c)

\* zeros((size, D))
zeros(size, D) ==
    [shape |-> <<size, D>>, rows |-> [i \in 0 .. (size - 1) |-> ZeroRow]]

NoArray == [shape |-> <<0, 0>>, rows |-> [i \in {} |-> ZeroRow]]

\* sum(conjugate(row) * row) of one row, as the quadratic form in the inner
\* products of the vectors the row combines: <<a, b>> |-> c_a * c_b.
RowSquare(row) ==
    [ab \in (DOMAIN row) \X (DOMAIN row) |-> row[ab[1]] * row[ab[2]]]

\* The sum of two quadratic forms.
FormAdd(f, g) ==
    [ab \in (DOMAIN f) \cup (DOMAIN g) |->
        (IF ab \in DOMAIN f THEN f[ab] ELSE 0)
        + (IF ab \in DOMAIN g THEN g[ab] ELSE 0)]

RECURSIVE SumRows(_, _)
SumRows(rows, n) ==
    IF n = 0 THEN [ab \in {} |-> 0]
    ELSE FormAdd(SumRows(rows, n - 1), RowSquare(rows[n - 1]))

\* sum(sum(conjugate(cnew) * cnew, axis=1), axis=0)
SquaredNorm(arr) == SumRows(arr.rows, arr.shape[1])

----------------------------------------------------------------------------
(* GradientHAWP.apply_gradient_component                                   *)

\* Mutant of PrepareStorage: Ke = K, the shape is not extended.
PrepareStorageNoExtend(Kx, D) ==
    [Ke |-> Kx, cnew |-> zeros(get_basis_size(Kx), D)]

\* Mutant of PrepareStorage: Ke holds only the new frontier nodes.
PrepareStorageFrontier(Kx, D) ==
    LET e == BasisShape(Kx.D, extend(Kx).nodes \ Kx.nodes)
    IN  [Ke |-> e, cnew |-> zeros(get_basis_size(e), D)]

\* Mutant of PrepareStorage: size = K.get_basis_size().
PrepareStorageOldSize(Kx, D) ==
    [Ke |-> extend(Kx), cnew |-> zeros(get_basis_size(Kx), D)]

\* Lines 43-47: Ke = K.extend(); size = Ke.get_basis_size();
\* cnew = zeros((size, D)).
PrepareStorage(Kx, D) ==
    LET e == extend(Kx)
    IN  [Ke |-> e, cnew |-> zeros(get_basis_size(e), D)]

\* Mutant of ScatterAdd: the row of a node of K is addressed with the
\* position K gives it, cnew[K[nb], :] += ...
ScatterAddReusePosition(st, Kx, Kex, cf, k, nb, key, kind, d) ==
    LET row == IF contains(Kx, nb) THEN Kx.lima[nb] ELSE Kex.lima[nb]
    IN  IF st.err # "none" THEN st
        ELSE IF ~contains(Kx, k) \/ ~contains(Kex, nb)
             THEN [st EXCEPT !.err = "KeyError"]
        ELSE IF Kx.lima[k] \notin DOMAIN cf \/ row \notin DOMAIN st.cnew.rows
             THEN [st EXCEPT !.err = "IndexError"]
        ELSE [st EXCEPT !.cnew.rows[row] = RowAdd(@, key, cf[Kx.lima[k]]),
                        !.log = Append(@, <<kind, k, d, nb>>)]

\* Mutant of ScatterAdd: the source is read as coeffs[Ke[k]].
ScatterAddReadExtended(st, Kx, Kex, cf, k, nb, key, kind, d) ==
    IF st.err # "none" THEN st
    ELSE IF ~contains(Kex, k) \/ ~contains(Kex, nb)
         THEN [st EXCEPT !.err = "KeyError"]
    ELSE IF Kex.lima[k] \notin DOMAIN cf
            \/ Kex.lima[nb] \notin DOMAIN st.cnew.rows
         THEN [st EXCEPT !.err = "IndexError"]
    ELSE [st EXCEPT !.cnew.rows[Kex.lima[nb]] = RowAdd(@, key, cf[Kex.lima[k]]),
                    !.log = Append(@, <<kind, k, d, nb>>)]

\* Mutant of ScatterAdd: the source entry is consumed in place after it is
\* read, coeffs[K[k]] = 0.
ScatterAddInPlace(st, Kx, Kex, cf, k, nb, key, kind, d) ==
    IF st.err # "none" THEN st
    ELSE IF ~contains(Kx, k) \/ ~contains(Kex, nb)
         THEN [st EXCEPT !.err = "KeyError"]
    ELSE IF Kx.lima[k] \notin DOMAIN cf
            \/ Kex.lima[nb] \notin DOMAIN st.cnew.rows
         THEN [st EXCEPT !.err = "IndexError"]
    ELSE [st EXCEPT !.cnew.rows[Kex.lima[nb]] = RowAdd(@, key, cf[Kx.lima[k]]),
                    !.log = Append(@, <<kind, k, d, nb>>),
                    !.src[Kx.lima[k]] = 0]

\* One statement "cnew[Ke[nb], :] += c * vector", with c = coeffs[K[k]]:
\* a shape lookup of a missing node raises KeyError, an array index out of
\* range raises IndexError, and nothing runs after an exception.
ScatterAdd(st, Kx, Kex, cf, k, nb, key, kind, d) ==
    IF st.err # "none" THEN st
    ELSE IF ~contains(Kx, k) \/ ~contains(Kex, nb)
         THEN [st EXCEPT !.err = "KeyError"]
    ELSE IF Kx.lima[k] \notin DOMAIN cf
            \/ Kex.lima[nb] \notin DOMAIN st.cnew.rows
         THEN [st EXCEPT !.err = "IndexError"]
    ELSE [st EXCEPT !.cnew.rows[Kex.lima[nb]] = RowAdd(@, key, cf[Kx.lima[k]]),
                    !.log = Append(@, <<kind, k, d, nb>>)]

\* Line 52: cnew[Ke[k], :] += squeeze(coeffs[K[k]] * p)
CentralTerm(st, Kx, Kex, cf, k) ==
    ScatterAdd(st, Kx, Kex, cf, k, k, <<"p", 0, 1>>, "central", 0)

\* Lines 57-58: for d, nb in nbw:
\*     cnew[Ke[nb], :] += sqrt(eps**2 / 2.0) * sqrt(k[d]) * coeffs[K[k]] * Pbar[:, d]
RECURSIVE BackwardLoop(_, _, _, _, _, _)
BackwardLoop(st, Kx, Kex, cf, k, nbw) ==
    IF nbw = <<>> THEN st
    ELSE LET d  == Head(nbw)[1]
             nb == Head(nbw)[2]
         IN  BackwardLoop(
                 ScatterAdd(st, Kx, Kex, cf, k, nb, <<"Pbar", d, k[d + 1]>>, "backward", d),
                 Kx, Kex, cf, k, Tail(nbw))

\* Mutant of BackwardTerms: the neighbours are taken with selection="forward".
BackwardTermsPasted(st, Kx, Kex, cf, k) ==
    BackwardLoop(st, Kx, Kex, cf, k, get_neighbours(Kex, k, "forward"))

\* Mutant of BackwardTerms: k - e_d is written for every dimension d, without
\* asking the shape for the neighbours.
BackwardTermsNoBoundary(st, Kx, Kex, cf, k) ==
    BackwardLoop(st, Kx, Kex, cf, k,
                 [i \in 1 .. Kx.D |-> <<i - 1, NodeSub(k, i - 1)>>])

\* Lines 54-58: the backward neighbours are located in Ke.
BackwardTerms(st, Kx, Kex, cf, k) ==
    BackwardLoop(st, Kx, Kex, cf, k, get_neighbours(Kex, k, "backward"))

\* Mutant of ForwardLoop: the weight is sqrt(k[d]) instead of sqrt(k[d] + 1.0).
RECURSIVE ForwardLoopWeight(_, _, _, _, _, _)
ForwardLoopWeight(st, Kx, Kex, cf, k, nfw) ==
    IF nfw = <<>> THEN st
    ELSE LET d  == Head(nfw)[1]
             nb == Head(nfw)[2]
         IN  ForwardLoopWeight(
                 ScatterAdd(st, Kx, Kex, cf, k, nb, <<"P", d, k[d + 1]>>, "forward", d),
                 Kx, Kex, cf, k, Tail(nfw))

\* Lines 63-64: for d, nb in nfw:
\*     cnew[Ke[nb], :] += sqrt(eps**2 / 2.0) * sqrt(k[d] + 1.0) * coeffs[K[k]] * P[:, d]
RECURSIVE ForwardLoop(_, _, _, _, _, _)
ForwardLoop(st, Kx, Kex, cf, k, nfw) ==
    IF nfw = <<>> THEN st
    ELSE LET d  == Head(nfw)[1]
             nb == Head(nfw)[2]
         IN  ForwardLoop(
                 ScatterAdd(st, Kx, Kex, cf, k, nb, <<"P", d, k[d + 1] + 1>>, "forward", d),
                 Kx, Kex, cf, k, Tail(nfw))

\* Mutant of ForwardTerms: the neighbours are located in K.
ForwardTermsInOriginal(st, Kx, Kex, cf, k) ==
    ForwardLoop(st, Kx, Kex, cf, k, get_neighbours(Kx, k, "forward"))

\* Lines 60-64: the forward neighbours are located in Ke.
ForwardTerms(st, Kx, Kex, cf, k) ==
    ForwardLoop(st, Kx, Kex, cf, k, get_neighbours(Kex, k, "forward"))

\* Lines 50-64: the body of the loop for one node k.
LoopBody(st, Kx, Kex, cf, k) ==
    ForwardTerms(BackwardTerms(CentralTerm(st, Kx, Kex, cf, k), Kx, Kex, cf, k),
                 Kx, Kex, cf, k)

----------------------------------------------------------------------------
(* Inputs                                                                  *)

FamilyShapes ==
    UNION {{HyperCubicShape(l) : l \in [1 .. D -> 1 .. MaxLimit]}
           \cup {SimplexShape(D, Kmax) : Kmax \in 0 .. (MaxLimit - 1)}
           : D \in Dimensions}

RECURSIVE ExtendTimes(_, _)
ExtendTimes(shape, n) ==
    IF n = 0 THEN shape ELSE ExtendTimes(extend(shape), n - 1)

\* Coefficient arrays with size rows and at most Cardinality(Populated)
\* nonzero entries.
CoefficientArrays(size) ==
    {[i \in 0 .. (size - 1) |->
        IF \E j \in Populated : at[j] = i
        THEN val[CHOOSE j \in Populated : at[j] = i] ELSE 0]
     : at \in [Populated -> 0 .. (size - 1)], val \in [Populated -> 0 .. MaxCoeff]}

----------------------------------------------------------------------------
(* The state machine                                                       *)

Init ==
    /\ base \in FamilyShapes
    /\ \E g \in Generations :
        \E c \in CoefficientArrays(get_basis_size(ExtendTimes(base, g))) :
            packet = [K |-> ExtendTimes(base, g), coeffs |-> c]
    /\ pc = "idle"
    /\ K = NoShape
    /\ Ke = NoShape
    /\ coeffs = <<>>
    /\ cnew = NoArray
    /\ it = <<>>
    /\ log = <<>>
    /\ err = "none"
    /\ result = <<>>
    /\ ekin = <<>>
    /\ before = <<>>
    /\ lk = Unused
    /\ sl = Unused
    /\ cc = Unused
    /\ io = Unused
    /\ pp = Unused

\* Lines 37-47 and the creation of the node iterator of line 50.
Enter ==
    /\ pc = "idle"
    /\ K' = packet.K
    /\ coeffs' = packet.coeffs
    /\ LET s == PrepareStorage(packet.K, packet.K.D)
       IN  Ke' = s.Ke /\ cnew' = s.cnew
    /\ it' = get_node_iterator(packet.K)
    /\ pc' = "loop"
    /\ before' = packet
    /\ UNCHANGED <<base, packet, log, err, result, ekin, lk, cc, io, pp, sl>>

\* Mutant of Iterate: the loop is wrapped in a handler that swallows the
\* exception and returns the array as far as it was filled.
IterateExposePartial ==
    /\ pc = "loop"
    /\ it # <<>>
    /\ LET st == LoopBody([cnew |-> cnew, log |-> log, err |-> "none",
                           src |-> coeffs],
                          K, Ke, coeffs, Head(it))
       IN  /\ cnew' = st.cnew
           /\ log' = st.log
           /\ err' = st.err
           /\ coeffs' = st.src
           /\ packet' = [packet EXCEPT !.coeffs = st.src]
           /\ IF st.err = "none"
              THEN it' = Tail(it) /\ pc' = "loop" /\ result' = result
              ELSE it' = it /\ pc' = "done" /\ result' = <<Ke, st.cnew>>
    /\ UNCHANGED <<base, K, Ke, ekin, before, lk, cc, io, pp, sl>>

\* Lines 50-64: one iteration of the loop; an exception ends the call.  The
\* local coeffs is the array object the wavepacket holds (line 41 binds a
\* reference), so a write through it would be a write to the wavepacket.
Iterate ==
    /\ pc = "loop"
    /\ it # <<>>
    /\ LET st == LoopBody([cnew |-> cnew, log |-> log, err |-> "none",
                           src |-> coeffs],
                          K, Ke, coeffs, Head(it))
       IN  /\ cnew' = st.cnew
           /\ log' = st.log
           /\ err' = st.err
           /\ coeffs' = st.src
           /\ packet' = [packet EXCEPT !.coeffs = st.src]
           /\ IF st.err = "none"
              THEN it' = Tail(it) /\ pc' = "loop"
              ELSE it' = it /\ pc' = "failed"
    /\ UNCHANGED <<base, K, Ke, result, ekin, before, lk, cc, io, pp, sl>>

\* Line 66: return (Ke, cnew)
Return ==
    /\ pc = "loop"
    /\ it = <<>>
    /\ result' = <<Ke, cnew>>
    /\ pc' = "done"
    /\ UNCHANGED <<base, packet, K, Ke, coeffs, cnew, it, log, err, ekin,
                   before, lk, cc, io, pp, sl>>

\* ObservablesHAWP.kinetic_energy(wavepacket, component=0), lines 93-105, once
\* the gradient of its line 96 has returned: ekin = 0.5 * <cnew, cnew>.
KineticEnergy ==
    /\ pc = "done"
    /\ ekin' = [num |-> 1, den |-> 2, form |-> SquaredNorm(result[2])]
    /\ pc' = "observed"
    /\ UNCHANGED <<base, packet, K, Ke, coeffs, cnew, it, log, err, result,
                   before, lk, cc, io, pp, sl>>

Next == Enter \/ Iterate \/ Return \/ KineticEnergy

Spec == Init /\ [][Next]_vars

\* A caller that breaks the precondition of the call: the coefficient array
\* has fewer rows than the basis shape has nodes (or exactly as many).
TruncatedArrays(size) ==
    {[i \in 0 .. (len - 1) |-> c[i]] :
        c \in CoefficientArrays(size), len \in 0 .. size}

InitMisuse ==
    /\ base \in FamilyShapes
    /\ \E g \in Generations :
        \E c \in TruncatedArrays(get_basis_size(ExtendTimes(base, g))) :
            packet = [K |-> ExtendTimes(base, g), coeffs |-> c]
    /\ pc = "idle"
    /\ K = NoShape
    /\ Ke = NoShape
    /\ coeffs = <<>>
    /\ cnew = NoArray
    /\ it = <<>>
    /\ log = <<>>
    /\ err = "none"
    /\ result = <<>>
    /\ ekin = <<>>
    /\ before = <<>>
    /\ lk = Unused
    /\ sl = Unused
    /\ cc = Unused
    /\ io = Unused
    /\ pp = Unused

SpecMisuse == InitMisuse /\ [][Next]_vars

\* The gradient call is not part of the run.
GradientUnused ==
    /\ base = Unused
    /\ packet = Unused
    /\ pc = "unused"
    /\ K = NoShape
    /\ Ke = NoShape
    /\ coeffs = <<>>
    /\ cnew = NoArray
    /\ it = <<>>
    /\ log = <<>>
    /\ err = "none"
    /\ result = <<>>
    /\ ekin = <<>>
    /\ before = <<>>

----------------------------------------------------------------------------
(* A position lookup K[k], as lines 52, 58 and 64 perform it               *)

\* The nodes a lookup is tried with: the components range from one below to
\* one above what the largest extended input shape holds.
LookupNodes(D) == [1 .. D -> -1 .. (MaxLimit + 2)]

InitLookup ==
    /\ \E b \in FamilyShapes, g \in Generations :
        \E k \in LookupNodes(b.D) :
            lk = [shape |-> ExtendTimes(b, g), given |-> ExtendTimes(b, g),
                  node |-> k, out |-> [kind |-> "none"]]
    /\ GradientUnused
    /\ sl = Unused
    /\ cc = Unused
    /\ io = Unused
    /\ pp = Unused

\* The lookup shape[node].
LookupNode ==
    /\ lk.out.kind = "none"
    /\ LET r == getitem(lk.shape, lk.node)
       IN  lk' = [lk EXCEPT !.out = r.out, !.shape = r.shape]
    /\ UNCHANGED <<gvars, cc, io, pp, sl>>

NextLookup == LookupNode

SpecLookup == InitLookup /\ [][NextLookup]_vars

----------------------------------------------------------------------------
(* Calls of apply_gradient_component that share one shape                  *)

\* A shared shape has at most this many nodes.
MaxSharedSize == 4

\* The callers: threads that each call apply_gradient_component once.
Callers == {1, 2}

\* Mutant of NewArray: the result array is one buffer that every call
\* reuses.
NewArrayReused(heap) == 1

\* Line 47: zeros(...) allocates an array no other call holds.
NewArray(heap) == Cardinality(DOMAIN heap) + 1

RECURSIVE RunLoop(_, _, _, _, _)
\* Lines 50-64 run to the end without another call in between.
RunLoop(st, Kx, Kex, cf, nodes) ==
    IF nodes = <<>> \/ st.err # "none" THEN st
    ELSE RunLoop(LoopBody(st, Kx, Kex, cf, Head(nodes)), Kx, Kex, cf, Tail(nodes))

\* What apply_gradient_component returns for shape Kx and array cf when it
\* runs alone.
Alone(Kx, cf) ==
    LET s == PrepareStorage(Kx, Kx.D)
        f == RunLoop([cnew |-> s.cnew, log |-> <<>>, err |-> "none", src |-> cf],
                     Kx, s.Ke, cf, get_node_iterator(Kx))
    IN  <<s.Ke, f.cnew>>

SharedShapes ==
    {sh \in {ExtendTimes(b, g) : b \in FamilyShapes, g \in Generations} :
        get_basis_size(sh) <= MaxSharedSize}

InitShared ==
    /\ \E sh \in SharedShapes :
        \E c \in [Callers -> CoefficientArrays(get_basis_size(sh))] :
            cc = [K |-> sh, given |-> sh, heap |-> <<>>, overlap |-> FALSE,
                  calls |-> [i \in Callers |->
                      [coeffs |-> c[i], given |-> c[i], pc |-> "idle",
                       Ke |-> NoShape, cnew |-> 0, it |-> <<>>, log |-> <<>>,
                       err |-> "none", result |-> <<>>]]]
    /\ GradientUnused
    /\ lk = Unused
    /\ sl = Unused
    /\ io = Unused
    /\ pp = Unused

\* Lines 37-47 and the creation of the iterator, by caller i: cnew is bound
\* to a newly allocated array.
SharedEnter(i) ==
    /\ cc.calls[i].pc = "idle"
    /\ LET s  == PrepareStorage(cc.K, cc.K.D)
           id == NewArray(cc.heap)
       IN  cc' = [cc EXCEPT
                    !.heap = [a \in (DOMAIN cc.heap) \cup {id} |->
                                IF a = id THEN s.cnew ELSE cc.heap[a]],
                    !.calls[i].Ke = s.Ke,
                    !.calls[i].cnew = id,
                    !.calls[i].it = get_node_iterator(cc.K),
                    !.calls[i].pc = "loop"]
    /\ UNCHANGED <<gvars, lk, io, pp, sl>>

\* Lines 50-64: one iteration of the loop of caller i; overlap records that
\* it ran while another caller was in the middle of its loop.
SharedIterate(i) ==
    /\ cc.calls[i].pc = "loop"
    /\ cc.calls[i].it # <<>>
    /\ LET me == cc.calls[i]
           st == LoopBody([cnew |-> cc.heap[me.cnew], log |-> me.log,
                           err |-> "none", src |-> me.coeffs],
                          cc.K, me.Ke, me.coeffs, Head(me.it))
       IN  cc' = [cc EXCEPT
                    !.heap[me.cnew] = st.cnew,
                    !.overlap = @ \/ \E j \in Callers \ {i} :
                                        /\ cc.calls[j].pc = "loop"
                                        /\ cc.calls[j].log # <<>>
                                        /\ cc.calls[j].it # <<>>,
                    !.calls[i].log = st.log,
                    !.calls[i].err = st.err,
                    !.calls[i].coeffs = st.src,
                    !.calls[i].it = IF st.err = "none" THEN Tail(me.it) ELSE me.it,
                    !.calls[i].pc = IF st.err = "none" THEN "loop" ELSE "failed"]
    /\ UNCHANGED <<gvars, lk, io, pp, sl>>

\* Line 66: return (Ke, cnew), by caller i.
SharedReturn(i) ==
    /\ cc.calls[i].pc = "loop"
    /\ cc.calls[i].it = <<>>
    /\ cc' = [cc EXCEPT
                !.calls[i].result = <<cc.calls[i].Ke, cc.heap[cc.calls[i].cnew]>>,
                !.calls[i].pc = "done"]
    /\ UNCHANGED <<gvars, lk, io, pp, sl>>

NextShared ==
    \E i \in Callers : SharedEnter(i) \/ SharedIterate(i) \/ SharedReturn(i)

SpecShared == InitShared /\ [][NextShared]_vars

----------------------------------------------------------------------------
(* Shape objects, their descriptions and their hashes                      *)

\* The description of a hyper-rectangular shape.
HyperCubicDescription(limits) ==
    [type |-> "HyperCubicShape", dimension |-> Len(limits), limits |-> limits]

\* The description of a simplex-limited shape.
SimplexDescription(D, Kmax) ==
    [type |-> "SimplexShape", dimension |-> D, K |-> Kmax]

RECURSIVE DigitsToInt(_, _)
\* The number whose decimal digits are acc followed by the entries of seq.
DigitsToInt(seq, acc) ==
    IF seq = <<>> THEN acc ELSE DigitsToInt(Tail(seq), 10 * acc + Head(seq))

\* Mutant of StructuralHash: the default hash of an object, derived from the
\* instance and not from what it describes.
IdentityHash(obj) == 7000 + obj.id

\* hash(basisshape): an integer derived from the family tag and the
\* parameters of the description.  The value stands for Python's hash of
\* that tuple: different descriptions of the model get different values,
\* and the values are of either sign.
StructuralHash(obj) ==
    IF obj.descr.type = "HyperCubicShape"
    THEN DigitsToInt(obj.descr.limits, 1)
    ELSE 0 - DigitsToInt(<<obj.descr.dimension, obj.descr.K>>, 1)

\* BlockFactory.create_basis_shape(descr): a new shape object of the family
\* the description names; id tells the instances apart.
create_basis_shape(descr, id) ==
    [id |-> id, descr |-> descr,
     shape |-> IF descr.type = "HyperCubicShape"
               THEN HyperCubicShape(descr.limits)
               ELSE SimplexShape(descr.dimension, descr.K)]

\* basisshape.get_description()
get_description(obj) == obj.descr

----------------------------------------------------------------------------
(* Strings: str(int), int(str) and the dataset names                       *)

DigitChars == <<"0", "1", "2", "3", "4", "5", "6", "7", "8", "9">>

RECURSIVE StrNat(_)
\* str(n) of a natural number, as the sequence of its characters.
StrNat(n) ==
    IF n < 10 THEN <<DigitChars[n + 1]>>
    ELSE StrNat(n \div 10) \o <<DigitChars[(n % 10) + 1]>>

\* str(n) of an integer.
Str(n) == IF n < 0 THEN <<"-">> \o StrNat(0 - n) ELSE StrNat(n)

RECURSIVE IntNat(_, _)
IntNat(chars, acc) ==
    IF chars = <<>> THEN acc
    ELSE IntNat(Tail(chars),
                10 * acc + (CHOOSE d \in 0 .. 9 : DigitChars[d + 1] = Head(chars)))

\* int(s) of the characters of a decimal integer.
ParseInt(chars) ==
    IF Head(chars) = "-" THEN 0 - IntNat(Tail(chars), 0) ELSE IntNat(chars, 0)

\* "basis_shape_"
NamePrefix == <<"b", "a", "s", "i", "s", "_", "s", "h", "a", "p", "e", "_">>

\* Mutant of ShapeName: the sign of the hash is dropped.
ShapeNameUnsigned(ha) == NamePrefix \o StrNat(IF ha < 0 THEN 0 - ha ELSE ha)

\* "basis_shape_" + str(ha)
ShapeName(ha) == NamePrefix \o Str(ha)

\* IOManager._save_attr_value(value): the stored form of an attribute.
SaveAttrValue(value) == <<"stored", value>>

\* IOManager._load_attr_value(value)
LoadAttrValue(stored) == stored[2]

\* for key, value in descr.items(): attrs[key] = self._save_attr_value(value)
SaveAttrs(descr) == [key \in DOMAIN descr |-> SaveAttrValue(descr[key])]

\* for key, value in attrs.items(): descr[key] = self._load_attr_value(value)
LoadAttrs(attrs) == [key \in DOMAIN attrs |-> LoadAttrValue(attrs[key])]

----------------------------------------------------------------------------
(* The wavepacket storage of one data block (IOM_plugin_wavepacket,        *)
(* IOM_plugin_inhomogwavepacket)                                           *)

\* maxshape None: the axis of a dataset may grow without limit.
NoLimit == -1

\* The two groups of a block: homogeneous and inhomogeneous wavepackets.
Groups == {"wavepacket", "wavepacket_inhomog"}

\* The parameter names add_wavepacket knows.
ValidKeys == {"q", "p", "Q", "P", "S", "adQ"}

\* The default key of add_wavepacket and of load_wavepacket_parameters.
KeyShort == <<"q", "p", "Q", "P", "S">>

\* The default key of save_wavepacket and of load_wavepacket.
KeyLong == <<"q", "p", "Q", "P", "S", "adQ">>

KeySet(key) == {key[i] : i \in DOMAIN key}

\* No load has returned since the last call that writes.
NoOutcome == [kind |-> "none"]

\* The empty mapping: a group without members, a dict without keys.
Empty == [x \in {} |-> 0]

\* Mapping f with name bound to value.
Bind(f, name, value) ==
    [n \in (DOMAIN f) \cup {name} |-> IF n = name THEN value ELSE f[n]]

\* create_dataset(name, (T, ...), maxshape=(Ts, ...), fillvalue=fill)
Dataset(T, fill, max) == [rows |-> [i \in 1 .. T |-> fill], fill |-> fill, max |-> max]

\* The value a dataset of the group Pi holds where nothing was written.
NoValue == <<"none", 0>>

\* add_wavepacket (homogeneous, lines 14-67) and add_inhomogwavepacket
\* (lines 14-68): the members of the new group.  The inhomogeneous plugin
\* creates one parameter dataset per component and key, lets the three
\* datasets of the group grow without limit and records the number of keys.
NewGroup(inhomog, N, D, timeslots, key) ==
    LET T  == IF timeslots = NoLimit THEN 0 ELSE timeslots
        Ts == timeslots
        Tg == IF inhomog THEN NoLimit ELSE Ts
        names == IF inhomog
                 THEN {<<k, i>> : k \in KeySet(key) \cap ValidKeys, i \in 0 .. (N - 1)}
                 ELSE {<<k>> : k \in KeySet(key) \cap ValidKeys}
    IN  [D |-> D, N |-> N,
         attrs |-> Empty,
         basisshapes |-> Empty,
         timegrid |-> Dataset(T, -1, Tg),
         basis_shape_hash |-> Dataset(T, [i \in 1 .. N |-> 0], Tg),
         basis_size |-> Dataset(T, [i \in 1 .. N |-> 0], Tg),
         Pi |-> [data |-> [n \in names |-> Dataset(T, NoValue, Ts)],
                 pointer |-> 0,
                 attrs |-> IF inhomog
                           THEN Bind(Empty, "number_parameters", Len(key))
                           ELSE Empty],
         coefficients |-> [data |-> [n \in {<<"c", i>> : i \in 0 .. (N - 1)} |->
                                       Dataset(T, <<0>>, Ts)],
                           pointer |-> 0]]

\* add_wavepacket / add_inhomogwavepacket on the file: create_group fails
\* with ValueError when the group already has its members.
add_wavepacket(st, group, N, D, timeslots, key) ==
    IF group \in DOMAIN st.file
    THEN [st EXCEPT !.err = "ValueError"]
    ELSE [st EXCEPT !.file = Bind(@, group,
                        NewGroup(group = "wavepacket_inhomog", N, D, timeslots, key))]

\* Mutant of save_wavepacket_basisshapes: a shape is stored only while the
\* group basisshapes is empty.
save_wavepacket_basisshapes_once(st, group, obj) ==
    IF st.err # "none" THEN st
    ELSE IF group \notin DOMAIN st.file THEN [st EXCEPT !.err = "KeyError"]
    ELSE LET ha == StructuralHash(obj)
             name == ShapeName(ha)
         IN  IF DOMAIN st.file[group].basisshapes = {}
             THEN [st EXCEPT !.file[group].basisshapes =
                     Bind(@, name, [data |-> <<ha>>,
                                    attrs |-> SaveAttrs(get_description(obj))])]
             ELSE st

\* save_wavepacket_basisshapes (lines 168-190) and
\* save_inhomogwavepacket_basisshapes (lines 158-179).
save_wavepacket_basisshapes(st, group, obj) ==
    IF st.err # "none" THEN st
    ELSE IF group \notin DOMAIN st.file THEN [st EXCEPT !.err = "KeyError"]
    ELSE LET ha == StructuralHash(obj)
             name == ShapeName(ha)
         IN  IF name \notin DOMAIN st.file[group].basisshapes
             THEN [st EXCEPT !.file[group].basisshapes =
                     Bind(@, name, [data |-> <<ha>>,
                                    attrs |-> SaveAttrs(get_description(obj))])]
             ELSE st

\* load_wavepacket_basisshapes(the_hash=..., blockid) (lines 289-321) with a
\* hash: the stored description, or IndexError.
\* The hash in the name of an entry, taken without its sign.
HashOfNameUnsigned(ahash) ==
    IntNat(SelectSeq(SubSeq(ahash, Len(NamePrefix) + 1, Len(ahash)),
                     LAMBDA ch : ch # "-"), 0)

\* int(ahash[12:]): the hash in the name of an entry.
HashOfName(ahash) == ParseInt(SubSeq(ahash, Len(NamePrefix) + 1, Len(ahash)))

\* load_wavepacket_basisshapes(the_hash=None, blockid): every description
\* in the group, under the hash in its name.
load_wavepacket_basisshapes_all(st, group) ==
    IF group \notin DOMAIN st.file THEN [err |-> "KeyError", descr |-> Empty]
    ELSE LET names == DOMAIN st.file[group].basisshapes
         IN  [err |-> "none",
              descr |-> [h \in {HashOfName(ahash) : ahash \in names} |->
                           LoadAttrs(st.file[group].basisshapes[
                               CHOOSE ahash \in names : HashOfName(ahash) = h].attrs)]]

\* load_wavepacket_basisshapes(the_hash, blockid) with a hash.
load_wavepacket_basisshapes(st, group, the_hash) ==
    IF group \notin DOMAIN st.file THEN [err |-> "KeyError", descr |-> Empty]
    ELSE LET name == ShapeName(the_hash)
         IN  IF name \in DOMAIN st.file[group].basisshapes
             THEN [err |-> "none",
                   descr |-> LoadAttrs(st.file[group].basisshapes[name].attrs)]
             ELSE [err |-> "IndexError", descr |-> Empty]

----------------------------------------------------------------------------
(* Saving a wavepacket                                                     *)

\* IOManager.must_resize(path, slot): the dataset grows along axis 0 to
\* slot + 1 rows when it has fewer; growing beyond maxshape fails.
\* What the storage library raises for a row or column a dataset does not
\* have; which exception that is depends on the library.
SelectionError == "SelectionError"

must_resize(ds, slot) ==
    IF Len(ds.rows) - 1 < slot
    THEN IF ds.max # NoLimit /\ slot + 1 > ds.max
         THEN [err |-> "ResizeError", ds |-> ds]
         ELSE [err |-> "none",
               ds |-> [ds EXCEPT !.rows = [i \in 1 .. (slot + 1) |->
                          IF i <= Len(ds.rows) THEN ds.rows[i] ELSE ds.fill]]]
    ELSE [err |-> "none", ds |-> ds]

\* A row padded with zeros to the given width.
PadRow(row, width) ==
    [j \in 1 .. width |-> IF j <= Len(row) THEN row[j] ELSE 0]

\* IOManager.must_resize(path, slot, axis=1) of a coefficient dataset, whose
\* second axis has no limit: every row grows to slot + 1 entries.
must_resize_columns(ds, slot) ==
    IF Len(ds.fill) - 1 < slot
    THEN [ds EXCEPT !.fill = PadRow(@, slot + 1),
                    !.rows = [i \in DOMAIN ds.rows |-> PadRow(ds.rows[i], slot + 1)]]
    ELSE ds

\* save_wavepacket_description (lines 89-98)
save_wavepacket_description(st, group, descr) ==
    IF st.err # "none" THEN st
    ELSE IF group \notin DOMAIN st.file THEN [st EXCEPT !.err = "KeyError"]
    ELSE [st EXCEPT !.file[group].attrs =
             [k \in (DOMAIN @) \cup (DOMAIN descr) |->
                 IF k \in DOMAIN descr THEN SaveAttrValue(descr[k]) ELSE @[k]]]

RECURSIVE WriteParameters(_, _, _, _, _)
\* Lines 117-119: for key, item in zip(key, parameters):
\*     self.must_resize(pathd + key, timeslot)
\*     self._srf[pathd + key][timeslot, :, :] = item
WriteParameters(st, group, key, parameters, timeslot) ==
    IF st.err # "none" \/ key = <<>> \/ parameters = <<>> THEN st
    ELSE LET name == <<Head(key)>>
         IN  IF name \notin DOMAIN st.file[group].Pi.data
             THEN [st EXCEPT !.err = "KeyError"]
             ELSE LET r == must_resize(st.file[group].Pi.data[name], timeslot)
                  IN  IF r.err # "none" THEN [st EXCEPT !.err = r.err]
                      ELSE WriteParameters(
                             [st EXCEPT !.file[group].Pi.data[name] =
                                 [r.ds EXCEPT !.rows[timeslot + 1] = Head(parameters)]],
                             group, Tail(key), Tail(parameters), timeslot)

\* Mutant of WriteTimegrid: the timestep is appended at the end of the
\* timegrid instead of being written at the timeslot.
WriteTimegridAppend(st, group, timeslot, timestep) ==
    IF st.err # "none" THEN st
    ELSE [st EXCEPT !.file[group].timegrid.rows = Append(@, timestep)]

\* Lines 122-123 and 161-162: self.must_resize(pathtg, timeslot);
\* self._srf[pathtg][timeslot] = timestep
WriteTimegrid(st, group, timeslot, timestep) ==
    IF st.err # "none" THEN st
    ELSE LET r == must_resize(st.file[group].timegrid, timeslot)
         IN  IF r.err # "none" THEN [st EXCEPT !.err = r.err]
             ELSE [st EXCEPT !.file[group].timegrid =
                      [r.ds EXCEPT !.rows[timeslot + 1] = timestep]]

\* save_wavepacket_parameters (lines 101-126)
save_wavepacket_parameters(st, group, parameters, timestep, key) ==
    IF st.err # "none" THEN st
    ELSE IF group \notin DOMAIN st.file THEN [st EXCEPT !.err = "KeyError"]
    ELSE LET timeslot == st.file[group].Pi.pointer
             w == WriteTimegrid(WriteParameters(st, group, key, parameters, timeslot),
                                group, timeslot, timestep)
         IN  IF w.err # "none" THEN w
             ELSE [w EXCEPT !.file[group].Pi.pointer = @ + 1]

RECURSIVE WriteCoefficients(_, _, _, _, _, _)
\* Lines 153-159: for index, (bs, ci) in enumerate(zip(basisshapes,
\* coefficients)): resize c_index along both axes, then write the size, the
\* hash and the first size entries of the row.
WriteCoefficients(st, group, index, basisshapes, coefficients, timeslot) ==
    IF st.err # "none" \/ basisshapes = <<>> \/ coefficients = <<>> THEN st
    ELSE LET name == <<"c", index>>
             bs   == Head(basisshapes)
             ci   == Head(coefficients)
             size == get_basis_size(bs.shape)
         IN  IF name \notin DOMAIN st.file[group].coefficients.data
             THEN [st EXCEPT !.err = "KeyError"]
             ELSE LET r == must_resize(st.file[group].coefficients.data[name], timeslot)
                  IN  IF r.err # "none" THEN [st EXCEPT !.err = r.err]
                      ELSE LET wide == must_resize_columns(r.ds, size - 1)
                               s1 == [st EXCEPT !.file[group].coefficients.data[name] = wide]
                           IN  IF index + 1 > st.file[group].N
                               THEN [s1 EXCEPT !.err = SelectionError]
                               ELSE LET s2 == [s1 EXCEPT
                                           !.file[group].basis_size.rows[timeslot + 1][index + 1] = size,
                                           !.file[group].basis_shape_hash.rows[timeslot + 1][index + 1] =
                                               StructuralHash(bs)]
                                    IN  IF Len(ci) # size
                                        THEN [s2 EXCEPT !.err = "ValueError"]
                                        ELSE WriteCoefficients(
                                               [s2 EXCEPT !.file[group].coefficients.data[name].rows[timeslot + 1] =
                                                   [j \in DOMAIN @ |-> IF j <= size THEN ci[j] ELSE @[j]]],
                                               group, index + 1, Tail(basisshapes),
                                               Tail(coefficients), timeslot)

\* save_wavepacket_coefficients (lines 129-165)
save_wavepacket_coefficients(st, group, coefficients, basisshapes, timestep) ==
    IF st.err # "none" THEN st
    ELSE IF group \notin DOMAIN st.file THEN [st EXCEPT !.err = "KeyError"]
    ELSE LET timeslot == st.file[group].coefficients.pointer
             r1 == must_resize(st.file[group].basis_shape_hash, timeslot)
             r2 == must_resize(st.file[group].basis_size, timeslot)
         IN  IF r1.err # "none" THEN [st EXCEPT !.err = r1.err]
             ELSE IF r2.err # "none"
                  THEN [st EXCEPT !.file[group].basis_shape_hash = r1.ds, !.err = r2.err]
             ELSE LET s1 == [st EXCEPT !.file[group].basis_shape_hash = r1.ds,
                                       !.file[group].basis_size = r2.ds]
                      w  == WriteTimegrid(
                              WriteCoefficients(s1, group, 0, basisshapes,
                                                coefficients, timeslot),
                              group, timeslot, timestep)
                  IN  IF w.err # "none" THEN w
                      ELSE [w EXCEPT !.file[group].coefficients.pointer = @ + 1]

\* No basis shape is saved.
SaveShapesNone(st, group, shapes) == st

RECURSIVE SaveShapes(_, _, _)
\* Lines 384-385: for shape in packet.get_basis_shapes():
\*     self.save_wavepacket_basisshapes(shape, blockid=blockid)
SaveShapes(st, group, shapes) ==
    IF shapes = <<>> THEN st
    ELSE SaveShapes(save_wavepacket_basisshapes(st, group, Head(shapes)),
                    group, Tail(shapes))

\* packet.get_parameters(key=key)
get_parameters(wp, key) == [i \in DOMAIN key |-> wp.Pi[key[i]]]

\* save_wavepacket (lines 365-387): description, parameters, basis shapes,
\* coefficients; an exception ends the call where it is raised.
save_wavepacket(st, group, wp, timestep, key) ==
    save_wavepacket_coefficients(
        SaveShapes(
            save_wavepacket_parameters(
                save_wavepacket_description(st, group, wp.descr),
                group, get_parameters(wp, key), timestep, key),
            group, wp.Ks),
        group, wp.coefficients, wp.Ks, timestep)

----------------------------------------------------------------------------
(* Saving and loading basis shapes                                         *)

\* Largest per-axis limit of a shape that is saved.
MaxShapeLimit == 2
\* At most this many calls that save a basis shape.
MaxShapeSaves == 2

\* The descriptions of the shapes that are saved.
ShapeDescriptions ==
    UNION {{HyperCubicDescription(l) : l \in [1 .. D -> 1 .. MaxShapeLimit]}
           \cup {SimplexDescription(D, Kmax) : Kmax \in 0 .. (MaxShapeLimit - 1)}
           : D \in Dimensions}

\* The file of a block without wavepacket groups: nothing was called yet.
NewFile == [file |-> Empty, err |-> "none", given |-> <<>>, out |-> NoOutcome]

InitShapes ==
    /\ io = NewFile
    /\ GradientUnused
    /\ lk = Unused
    /\ sl = Unused
    /\ cc = Unused
    /\ pp = Unused

\* add_wavepacket(parameters, blockid=b) or add_inhomogwavepacket(...) with
\* the default timeslots and key.
AddGroup ==
    /\ \E group \in Groups, D \in Dimensions :
        io' = add_wavepacket([io EXCEPT !.err = "none", !.out = NoOutcome],
                             group, 1, D, NoLimit, KeyShort)
    /\ UNCHANGED <<gvars, lk, cc, pp, sl>>

\* save_wavepacket_basisshapes(shape, blockid=b) or
\* save_inhomogwavepacket_basisshapes(shape, blockid=b) with a shape object
\* the caller built; given records the calls that returned.
SaveBasisShape ==
    /\ Len(io.given) < MaxShapeSaves
    /\ \E group \in Groups, d \in ShapeDescriptions :
        LET obj == create_basis_shape(d, Len(io.given) + 1)
            st  == save_wavepacket_basisshapes(
                       [io EXCEPT !.err = "none", !.out = NoOutcome], group, obj)
        IN  io' = IF st.err = "none"
                  THEN [st EXCEPT !.given = Append(@, [group |-> group, obj |-> obj])]
                  ELSE st
    /\ UNCHANGED <<gvars, lk, cc, pp, sl>>

\* The hashes a caller asks for: of the shapes that were saved, and of
\* every description, saved or not.
LoadableHashes ==
    {StructuralHash(io.given[i].obj) : i \in DOMAIN io.given}
    \cup {StructuralHash([id |-> 0, descr |-> d]) : d \in ShapeDescriptions}

\* load_wavepacket_basisshapes(the_hash=h, blockid=b) followed by
\* BlockFactory.create_basis_shape(descr), as lines 351-355 do.
LoadBasisShape ==
    /\ \E group \in Groups, h \in LoadableHashes :
        LET r == load_wavepacket_basisshapes(io, group, h)
        IN  io' = [io EXCEPT
                     !.err = r.err,
                     !.out = IF r.err = "none"
                             THEN [kind |-> "shape", group |-> group, hash |-> h,
                                   descr |-> r.descr,
                                   shape |-> create_basis_shape(r.descr, 0)]
                             ELSE [kind |-> "error", group |-> group, hash |-> h]]
    /\ UNCHANGED <<gvars, lk, cc, pp, sl>>

\* load_wavepacket_basisshapes(blockid=b) and its inhomogeneous
\* counterpart, with the_hash=None.
LoadAllBasisShapes ==
    /\ \E group \in Groups :
        LET r == load_wavepacket_basisshapes_all(io, group)
        IN  io' = [io EXCEPT
                     !.err = r.err,
                     !.out = IF r.err = "none"
                             THEN [kind |-> "shapes", group |-> group,
                                   descrs |-> r.descr]
                             ELSE [kind |-> "noshapes", group |-> group]]
    /\ UNCHANGED <<gvars, lk, cc, pp, sl>>

NextShapes == AddGroup \/ SaveBasisShape \/ LoadBasisShape \/ LoadAllBasisShapes

SpecShapes == InitShapes /\ [][NextShapes]_vars

----------------------------------------------------------------------------
(* Loading a wavepacket                                                    *)

\* IOManager.find_timestep_index(pathtg, timestep): the index of the entry
\* of the timegrid that equals the timestep.
find_timestep_index(tg, timestep) ==
    LET hits == {i \in DOMAIN tg.rows : tg.rows[i] = timestep}
    IN  IF hits = {} THEN [err |-> "ValueError", index |-> 0]
        ELSE IF Cardinality(hits) > 1 THEN [err |-> "Ambiguous", index |-> 0]
        ELSE [err |-> "none", index |-> (CHOOSE i \in hits : TRUE) - 1]

\* load_wavepacket_parameters(timestep, blockid, key) (lines 216-233)
load_wavepacket_parameters(st, group, timestep, key) ==
    LET f  == find_timestep_index(st.file[group].timegrid, timestep)
        ds == st.file[group].Pi.data
    IN  IF f.err # "none" THEN [err |-> f.err, params |-> <<>>]
        ELSE IF \E i \in DOMAIN key : <<key[i]>> \notin DOMAIN ds
             THEN [err |-> "KeyError", params |-> <<>>]
        ELSE IF \E i \in DOMAIN key : f.index + 1 > Len(ds[<<key[i]>>].rows)
             THEN [err |-> SelectionError, params |-> <<>>]
        ELSE [err |-> "none",
              params |-> [i \in DOMAIN key |-> ds[<<key[i]>>].rows[f.index + 1]]]

\* load_wavepacket_coefficients(timestep, get_hashes=True, blockid)
\* (lines 236-286): the hashes of the timeslot and, per component, the
\* first basis_size entries of its row.
load_wavepacket_coefficients(st, group, timestep) ==
    LET f  == find_timestep_index(st.file[group].timegrid, timestep)
        g  == st.file[group]
        N  == Cardinality(DOMAIN g.coefficients.data)
    IN  IF f.err # "none" THEN [err |-> f.err, hashes |-> <<>>, data |-> <<>>]
        ELSE IF \/ f.index + 1 > Len(g.basis_shape_hash.rows)
                \/ f.index + 1 > Len(g.basis_size.rows)
                \/ \E i \in 0 .. (N - 1) :
                       f.index + 1 > Len(g.coefficients.data[<<"c", i>>].rows)
             THEN [err |-> SelectionError, hashes |-> <<>>, data |-> <<>>]
        ELSE [err |-> "none",
              hashes |-> g.basis_shape_hash.rows[f.index + 1],
              data |-> [i \in 1 .. N |->
                          SubSeq(g.coefficients.data[<<"c", i - 1>>].rows[f.index + 1],
                                 1, g.basis_size.rows[f.index + 1][i])]]

\* The value of a load_wavepacket call that raised.
NoPacket == [descr |-> Empty, Pi |-> <<>>, Ks |-> <<>>, coefficients |-> <<>>]

\* load_wavepacket(timestep, blockid, key) (lines 329-362): description,
\* parameters, hashes and coefficients, one rebuilt shape per hash, and the
\* wavepacket configured with them.
load_wavepacket(st, group, timestep, key) ==
    IF group \notin DOMAIN st.file THEN [err |-> "KeyError", packet |-> NoPacket]
    ELSE LET descr == LoadAttrs(st.file[group].attrs)
             Pi == load_wavepacket_parameters(st, group, timestep, key)
             hc == load_wavepacket_coefficients(st, group, timestep)
         IN  IF Pi.err # "none" THEN [err |-> Pi.err, packet |-> NoPacket]
             ELSE IF hc.err # "none" THEN [err |-> hc.err, packet |-> NoPacket]
             ELSE LET Kd == [i \in DOMAIN hc.hashes |->
                                load_wavepacket_basisshapes(st, group, hc.hashes[i])]
                  IN  IF \E i \in DOMAIN Kd : Kd[i].err # "none"
                      THEN [err |-> "IndexError", packet |-> NoPacket]
                      ELSE [err |-> "none",
                            packet |-> [descr |-> descr,
                                        Pi |-> Pi.params,
                                        Ks |-> [i \in DOMAIN Kd |->
                                                  create_basis_shape(Kd[i].descr, 0)],
                                        coefficients |-> hc.data]]

----------------------------------------------------------------------------
(* Saving and loading wavepackets of one block                             *)

\* The number of components of the wavepackets.
NComponents == 1
\* Timesteps are drawn from 0 .. MaxTimestep.
MaxTimestep == 1
\* At most this many calls of save_wavepacket.
MaxPacketSaves == 2
\* The number of timeslots of a block created with a fixed number.
FixedTimeslots == 1

\* The n-th wavepacket a caller builds over the shape with description d:
\* its parameters and coefficients differ from those of every other.
Packet(n, d) ==
    [descr |-> [type |-> "HagedornWavepacket", dimension |-> d.dimension,
                ncomponents |-> NComponents],
     Pi |-> [k \in ValidKeys |-> <<k, n>>],
     Ks |-> [i \in 1 .. NComponents |-> create_basis_shape(d, n)],
     coefficients |-> [i \in 1 .. NComponents |->
                         [j \in 1 .. get_basis_size(create_basis_shape(d, n).shape) |->
                             100 * i + 10 * n + j]]]

\* The keys a caller passes: the default of add_wavepacket, and the default
\* of save_wavepacket and load_wavepacket.
CallerKeys == {KeyShort, KeyLong}

NewBlock == [file |-> Empty, err |-> "none", calls |-> <<>>, out |-> NoOutcome]

InitPackets ==
    /\ io = NewBlock
    /\ GradientUnused
    /\ lk = Unused
    /\ sl = Unused
    /\ cc = Unused
    /\ pp = Unused

\* add_wavepacket(parameters, timeslots, blockid=b, key)
AddWavepacket ==
    /\ \E D \in Dimensions, timeslots \in {NoLimit, FixedTimeslots},
          key \in CallerKeys :
        io' = add_wavepacket([io EXCEPT !.err = "none", !.out = NoOutcome],
                             "wavepacket", NComponents, D, timeslots, key)
    /\ UNCHANGED <<gvars, lk, cc, pp, sl>>

\* save_wavepacket(packet, timestep, blockid=b, key) on a block that
\* add_wavepacket has set up, with a wavepacket of the dimension of the
\* block; calls records every call and how it ended.
SavePacket ==
    /\ Len(io.calls) < MaxPacketSaves
    /\ "wavepacket" \in DOMAIN io.file
    /\ \E d \in ShapeDescriptions, t \in 0 .. MaxTimestep, key \in CallerKeys :
        /\ d.dimension = io.file["wavepacket"].D
        /\ LET wp == Packet(Len(io.calls) + 1, d)
               st == save_wavepacket([io EXCEPT !.err = "none", !.out = NoOutcome],
                                     "wavepacket", wp, t, key)
           IN  io' = [st EXCEPT !.calls = Append(@,
                        [packet |-> wp, timestep |-> t, key |-> key, err |-> st.err])]
    /\ UNCHANGED <<gvars, lk, cc, pp, sl>>

\* load_wavepacket(timestep, blockid=b, key); out is what it returned, until
\* the next call that writes.
LoadPacket ==
    /\ \E t \in 0 .. MaxTimestep, key \in CallerKeys :
        LET r == load_wavepacket(io, "wavepacket", t, key)
        IN  io' = [io EXCEPT
                     !.err = r.err,
                     !.out = [kind |-> IF r.err = "none" THEN "packet" ELSE "error",
                              timestep |-> t, key |-> key, packet |-> r.packet]]
    /\ UNCHANGED <<gvars, lk, cc, pp, sl>>

NextPackets == AddWavepacket \/ SavePacket \/ LoadPacket

SpecPackets == InitPackets /\ [][NextPackets]_vars

----------------------------------------------------------------------------
(* Saving parameters and coefficients of one block separately              *)

\* At most this many calls of save_wavepacket_parameters and
\* save_wavepacket_coefficients together.
MaxSeparateSaves == 3

\* The block before add_wavepacket; saved records every save call, what it
\* was given and how it ended.
InitPointers ==
    /\ io = [file |-> Empty, err |-> "none", saved |-> <<>>, out |-> NoOutcome]
    /\ GradientUnused
    /\ lk = Unused
    /\ sl = Unused
    /\ cc = Unused
    /\ pp = Unused

\* save_wavepacket_parameters(parameters, timestep, blockid=b) with the
\* default key, on a block that add_wavepacket has set up.
SaveParameters ==
    /\ Len(io.saved) < MaxSeparateSaves
    /\ "wavepacket" \in DOMAIN io.file
    /\ \E d \in ShapeDescriptions, t \in 0 .. MaxTimestep :
        /\ d.dimension = io.file["wavepacket"].D
        /\ LET parameters == get_parameters(Packet(Len(io.saved) + 1, d), KeyShort)
               st == save_wavepacket_parameters(
                         [io EXCEPT !.err = "none", !.out = NoOutcome],
                         "wavepacket", parameters, t, KeyShort)
           IN  io' = [st EXCEPT !.saved = Append(@,
                        [what |-> "parameters", timestep |-> t,
                         value |-> parameters, err |-> st.err])]
    /\ UNCHANGED <<gvars, lk, cc, pp, sl>>

\* save_wavepacket_coefficients(coefficients, basisshapes, timestep,
\* blockid=b), on a block that add_wavepacket has set up.
SaveCoefficients ==
    /\ Len(io.saved) < MaxSeparateSaves
    /\ "wavepacket" \in DOMAIN io.file
    /\ \E d \in ShapeDescriptions, t \in 0 .. MaxTimestep :
        /\ d.dimension = io.file["wavepacket"].D
        /\ LET wp == Packet(Len(io.saved) + 1, d)
               st == save_wavepacket_coefficients(
                         [io EXCEPT !.err = "none", !.out = NoOutcome],
                         "wavepacket", wp.coefficients, wp.Ks, t)
           IN  io' = [st EXCEPT !.saved = Append(@,
                        [what |-> "coefficients", timestep |-> t,
                         value |-> wp.coefficients, err |-> st.err])]
    /\ UNCHANGED <<gvars, lk, cc, pp, sl>>

\* load_wavepacket_parameters(timestep, blockid=b) with the default key.
LoadParameters ==
    /\ "wavepacket" \in DOMAIN io.file
    /\ \E t \in 0 .. MaxTimestep :
        LET r == load_wavepacket_parameters(io, "wavepacket", t, KeyShort)
        IN  io' = [io EXCEPT
                     !.err = r.err,
                     !.out = [kind |-> IF r.err = "none" THEN "loaded" ELSE "error",
                              what |-> "parameters", timestep |-> t,
                              value |-> r.params]]
    /\ UNCHANGED <<gvars, lk, cc, pp, sl>>

\* load_wavepacket_coefficients(timestep, blockid=b)
LoadCoefficients ==
    /\ "wavepacket" \in DOMAIN io.file
    /\ \E t \in 0 .. MaxTimestep :
        LET r == load_wavepacket_coefficients(io, "wavepacket", t)
        IN  io' = [io EXCEPT
                     !.err = r.err,
                     !.out = [kind |-> IF r.err = "none" THEN "loaded" ELSE "error",
                              what |-> "coefficients", timestep |-> t,
                              value |-> r.data]]
    /\ UNCHANGED <<gvars, lk, cc, pp, sl>>

NextPointers ==
    \/ AddWavepacket
    \/ SaveParameters
    \/ SaveCoefficients
    \/ LoadParameters
    \/ LoadCoefficients

SpecPointers == InitPointers /\ [][NextPointers]_vars

----------------------------------------------------------------------------
(* The data blocks of one file                                             *)

\* The values a caller passes as blockid, and the value of a blockid that
\* is not passed.
IntValue(n) == [type |-> "int", value |-> n]

NoneValue == [type |-> "NoneType"]

\* str(blockid)
str(v) == IF v.type = "int" THEN Str(v.value) ELSE <<"N", "o", "n", "e">>

\* self._prefixb
prefixb == <<"d", "a", "t", "a", "b", "l", "o", "c", "k", "_">>

\* Every method addresses the block 0.
BlockPathZero(blockid) == prefixb \o str(IntValue(0))

\* self._prefixb + str(blockid)
BlockPath(blockid) == prefixb \o str(blockid)

\* The default of the parameter blockid of each method.
DefaultBlockid ==
    [add_wavepacket  |-> IntValue(0),
     save_wavepacket |-> NoneValue,
     load_wavepacket |-> IntValue(0)]

\* The blockid a call is made with: passed is "no" or the number passed.
NotPassed == "no"

Blockid(method, passed) ==
    IF passed.given = NotPassed THEN DefaultBlockid[method]
    ELSE IntValue(passed.value)

\* The highest number of a data block of the file.
MaxBlock == 1

\* What a caller may do about blockid: leave it out, or pass the number of
\* a block of the file.
Passing ==
    {[given |-> NotPassed]} \cup {[given |-> "yes", value |-> n] : n \in 0 .. MaxBlock}

\* At most this many calls of add_wavepacket and save_wavepacket.
MaxBlockCalls == 2

\* A file with the data blocks 0 .. MaxBlock, none of them set up for
\* wavepackets; calls records every call of add_wavepacket and
\* save_wavepacket and how it ended.
InitBlocks ==
    /\ io = [blocks |-> [name \in {BlockPath(IntValue(n)) : n \in 0 .. MaxBlock} |-> Empty],
             err |-> "none", calls |-> <<>>, out |-> NoOutcome]
    /\ GradientUnused
    /\ lk = Unused
    /\ sl = Unused
    /\ cc = Unused
    /\ pp = Unused

\* The file of the block a path names, as the state the methods work on.
Block(path) == [file |-> io.blocks[path], err |-> "none"]

\* add_wavepacket(parameters[, blockid][, key])
AddToBlock ==
    /\ Len(io.calls) < MaxBlockCalls
    /\ \E passed \in Passing, key \in CallerKeys :
        LET path == BlockPath(Blockid("add_wavepacket", passed))
            st == IF path \in DOMAIN io.blocks
                  THEN add_wavepacket(Block(path), "wavepacket", NComponents, 1,
                                      NoLimit, key)
                  ELSE [file |-> Empty, err |-> "KeyError"]
            call == [method |-> "add_wavepacket", passed |-> passed, path |-> path,
                     key |-> key, err |-> st.err]
        IN  io' = [io EXCEPT
                     !.blocks = IF st.err = "none" THEN [@ EXCEPT ![path] = st.file] ELSE @,
                     !.err = st.err, !.out = NoOutcome,
                     !.calls = Append(@, call)]
    /\ UNCHANGED <<gvars, lk, cc, pp, sl>>

\* save_wavepacket(packet, timestep[, blockid][, key]) with a wavepacket
\* over a hyper-rectangular shape of dimension 1.
SaveToBlock ==
    /\ Len(io.calls) < MaxBlockCalls
    /\ \E passed \in Passing, key \in CallerKeys, t \in 0 .. MaxTimestep,
          d \in {HyperCubicDescription(l) : l \in [1 .. 1 -> 1 .. MaxShapeLimit]} :
        LET path == BlockPath(Blockid("save_wavepacket", passed))
            wp == Packet(Len(io.calls) + 1, d)
            st == IF path \in DOMAIN io.blocks
                  THEN save_wavepacket(Block(path), "wavepacket", wp, t, key)
                  ELSE [file |-> Empty, err |-> "KeyError"]
            call == [method |-> "save_wavepacket", passed |-> passed, path |-> path,
                     key |-> key, err |-> st.err, timestep |-> t, packet |-> wp]
        IN  io' = [io EXCEPT
                     !.blocks = IF path \in DOMAIN io.blocks
                                THEN [@ EXCEPT ![path] = st.file] ELSE @,
                     !.err = st.err, !.out = NoOutcome,
                     !.calls = Append(@, call)]
    /\ UNCHANGED <<gvars, lk, cc, pp, sl>>

\* load_wavepacket(timestep[, blockid][, key])
LoadFromBlock ==
    /\ \E passed \in Passing, key \in CallerKeys, t \in 0 .. MaxTimestep :
        LET path == BlockPath(Blockid("load_wavepacket", passed))
            r == IF path \in DOMAIN io.blocks
                 THEN load_wavepacket(Block(path), "wavepacket", t, key)
                 ELSE [err |-> "KeyError", packet |-> NoPacket]
        IN  io' = [io EXCEPT
                     !.err = r.err,
                     !.out = [kind |-> IF r.err = "none" THEN "packet" ELSE "error",
                              passed |-> passed, path |-> path,
                              timestep |-> t, key |-> key, packet |-> r.packet]]
    /\ UNCHANGED <<gvars, lk, cc, pp, sl>>

NextBlocks == AddToBlock \/ SaveToBlock \/ LoadFromBlock

SpecBlocks == InitBlocks /\ [][NextBlocks]_vars

----------------------------------------------------------------------------
(* ParameterProvider                                                       *)

\* A Python object held as a parameter value: id is the object, content
\* what it holds. Two values with one id are one object.
Object(id, content) == [id |-> id, content |-> content]

\* The object itself is handed on.
deepcopyShared(value, id) == value

\* deepcopy(value): a new object, id, holding what value holds.
deepcopy(value, id) == Object(id, value.content)

\* The names of the parameters, in a fixed order.
KeyOrder == <<"T", "dt", "potential", "nsteps", "ncomponents">>

ParamKeys == {KeyOrder[i] : i \in DOMAIN KeyOrder}

Rank(key) == CHOOSE i \in DOMAIN KeyOrder : KeyOrder[i] = key

\* What a parameter value holds.
MaxContent == 2

Contents == 1 .. MaxContent

\* deepcopy(params) of a dict: a new object for every value.
deepcopyDict(params, id) ==
    [key \in DOMAIN params |-> deepcopy(params[key], id + Rank(key) - 1)]

\* The provider and the module GlobalDefaults before any call: _params is
\* empty, GlobalDefaults defines dt.
NoCall == [op |-> "none"]

NewProvider ==
    [params |-> Empty,
     defaults |-> Bind(Empty, "dt", Object(1, 1)),
     fresh |-> 2,
     copied |-> Empty,
     calls |-> 0,
     out |-> NoCall]

\* key in provider
__contains__(st, key) == key \in DOMAIN st.params

\* provider[key] = value
__setitem__(st, key, value) ==
    [st EXCEPT !.params = Bind(@, key, deepcopy(value, st.fresh)),
               !.fresh = @ + 1]

\* provider[key]; out is what the call returned or raised, old the stored
\* parameters before it, consulted whether GlobalDefaults was looked at.
__getitem__(st, key) ==
    LET call == [op |-> "getitem", key |-> key, old |-> st.params]
    IN
    IF key \in DOMAIN st.params
    THEN [st EXCEPT !.out = call @@ [kind |-> "value", value |-> st.params[key],
                                     consulted |-> FALSE]]
    ELSE IF key \in DOMAIN st.defaults
         THEN LET copy == deepcopy(st.defaults[key], st.fresh)
                  s1 == __setitem__([st EXCEPT !.fresh = @ + 1], key, copy)
              IN  [s1 EXCEPT !.out = call @@ [kind |-> "value",
                                              value |-> s1.params[key],
                                              consulted |-> TRUE]]
         ELSE [st EXCEPT !.out = call @@ [kind |-> "KeyError", value |-> Object(0, 0),
                                          consulted |-> TRUE]]

\* TimeManager(self).compute_number_timesteps(): the number of steps of
\* size dt up to T; raises when T or dt is not stored.
compute_number_timesteps(st) ==
    IF __contains__(st, "T") /\ __contains__(st, "dt")
    THEN [err |-> "none", value |-> st.params["T"].content \div st.params["dt"].content]
    ELSE [err |-> "KeyError", value |-> 0]

\* Potential.get_number_components() of the potential the parameters name.
get_number_components(st) == st.params["potential"].content

\* compute_parameters()
compute_parameters(st) ==
    LET tm == compute_number_timesteps(st)
        s1 == IF tm.err = "none"
              THEN [st EXCEPT !.params = Bind(@, "nsteps", Object(st.fresh, tm.value)),
                              !.fresh = @ + 1]
              ELSE st
    IN  IF "potential" \in DOMAIN s1.params
        THEN [s1 EXCEPT !.params = Bind(@, "ncomponents",
                                        Object(s1.fresh, get_number_components(s1))),
                        !.fresh = @ + 1]
        ELSE s1

\* The arguments of set_parameters: a dict, a ParameterProvider (whose
\* get_parameters() returns a copy of its dict), or an object that is
\* neither, such as a list.
ArgKeys == {"T", "dt", "potential"}

ArgDicts ==
    UNION {[S -> {Object(0, c) : c \in Contents}] : S \in SUBSET ArgKeys}

Arguments ==
    {[type |-> "dict", dict |-> d] : d \in ArgDicts}
    \cup {[type |-> "provider", dict |-> compute_parameters(
              [NewProvider EXCEPT !.params = d, !.fresh = 0]).params] :
              d \in {x \in ArgDicts : DOMAIN x = {"T", "dt"}}}
    \cup {[type |-> "list", dict |-> Empty]}

\* set_parameters merges params into the stored parameters.
set_parametersUpdate(st, arg) ==
    LET call == [op |-> "set_parameters", arg |-> arg, old |-> st.params,
                 fresh |-> st.fresh]
    IN
    IF arg.type \notin {"dict", "provider"}
    THEN [st EXCEPT !.out = call @@ [kind |-> "TypeError"]]
    ELSE LET copy == deepcopyDict(arg.dict, st.fresh)
             s1 == [st EXCEPT !.params = [key \in DOMAIN copy \cup DOMAIN st.params |->
                                            IF key \in DOMAIN copy THEN copy[key]
                                            ELSE st.params[key]],
                              !.fresh = @ + Len(KeyOrder)]
         IN  [compute_parameters(s1) EXCEPT !.out = call @@ [kind |-> "ok"]]

\* set_parameters(params); out is how the call ended, old the stored
\* parameters before it, fresh the first object the call created.
set_parameters(st, arg) ==
    LET call == [op |-> "set_parameters", arg |-> arg, old |-> st.params,
                 fresh |-> st.fresh]
    IN
    IF arg.type \notin {"dict", "provider"}
    THEN [st EXCEPT !.out = call @@ [kind |-> "TypeError"]]
    ELSE LET s1 == [st EXCEPT !.params = deepcopyDict(arg.dict, st.fresh),
                              !.fresh = @ + Len(KeyOrder)]
         IN  [compute_parameters(s1) EXCEPT !.out = call @@ [kind |-> "ok"]]

\* for key, value in params.items(): self.__setitem__(key, value), from
\* the i-th name on.
RECURSIVE SetItems(_, _, _)
SetItems(st, params, i) ==
    IF i > Len(KeyOrder) THEN st
    ELSE IF KeyOrder[i] \in DOMAIN params
         THEN SetItems(__setitem__(st, KeyOrder[i], params[KeyOrder[i]]), params, i + 1)
         ELSE SetItems(st, params, i + 1)

\* update_parameters drops what params does not name.
update_parametersReplace(st, arg) ==
    LET call == [op |-> "update_parameters", arg |-> arg, old |-> st.params,
                 fresh |-> st.fresh]
    IN
    IF arg.type \notin {"dict", "provider"}
    THEN [st EXCEPT !.out = call @@ [kind |-> "TypeError"]]
    ELSE [compute_parameters(SetItems([st EXCEPT !.params = Empty], arg.dict, 1))
             EXCEPT !.out = call @@ [kind |-> "ok"]]

\* update_parameters(params); out is how the call ended, old the stored
\* parameters before it, fresh the first object the call created.
update_parameters(st, arg) ==
    LET call == [op |-> "update_parameters", arg |-> arg, old |-> st.params,
                 fresh |-> st.fresh]
    IN
    IF arg.type \notin {"dict", "provider"}
    THEN [st EXCEPT !.out = call @@ [kind |-> "TypeError"]]
    ELSE [compute_parameters(SetItems(st, arg.dict, 1))
             EXCEPT !.out = call @@ [kind |-> "ok"]]

\* At most this many calls on the provider and changes of GlobalDefaults.
MaxParamCalls == 3

\* The names GlobalDefaults may define.
DefaultKeys == {"dt", "potential"}

\* f without the names in S.
Without(f, S) == [n \in (DOMAIN f) \ S |-> f[n]]

InitProvider ==
    /\ pp = NewProvider
    /\ GradientUnused
    /\ lk = Unused
    /\ sl = Unused
    /\ cc = Unused
    /\ io = Unused

\* value = provider[key]; copied remembers the copy of a global default
\* that the call stored.
GetItem ==
    /\ pp.calls < MaxParamCalls
    /\ \E key \in ParamKeys :
        LET st == __getitem__(pp, key)
        IN  pp' = [st EXCEPT
                     !.calls = @ + 1,
                     !.copied = IF st.out.kind = "value" /\ st.out.consulted
                                THEN Bind(@, key, st.out.value) ELSE @]
    /\ UNCHANGED <<gvars, lk, cc, io, sl>>

\* provider[key] = value, with an object of the caller.
SetItem ==
    /\ pp.calls < MaxParamCalls
    /\ \E key \in ParamKeys, c \in Contents :
        LET st == __setitem__(pp, key, Object(0, c))
        IN  pp' = [st EXCEPT !.calls = @ + 1, !.out = NoCall,
                             !.copied = Without(@, {key})]
    /\ UNCHANGED <<gvars, lk, cc, io, sl>>

\* GlobalDefaults.key = value: the module binds the name to a new object.
SetDefault ==
    /\ pp.calls < MaxParamCalls
    /\ \E key \in DefaultKeys, c \in Contents :
        pp' = [pp EXCEPT !.defaults = Bind(@, key, Object(pp.fresh, c)),
                         !.fresh = @ + 1, !.calls = @ + 1, !.out = NoCall]
    /\ UNCHANGED <<gvars, lk, cc, io, sl>>

\* The object a global default is bound to is changed in place: whoever
\* holds that object sees the new content.
Changed(f, id, c) ==
    [n \in DOMAIN f |-> IF f[n].id = id THEN Object(id, c) ELSE f[n]]

MutateDefault ==
    /\ pp.calls < MaxParamCalls
    /\ \E key \in DOMAIN pp.defaults, c \in Contents :
        /\ c # pp.defaults[key].content
        /\ pp' = [pp EXCEPT !.defaults = Changed(@, pp.defaults[key].id, c),
                            !.params = Changed(@, pp.defaults[key].id, c),
                            !.calls = @ + 1, !.out = NoCall]
    /\ UNCHANGED <<gvars, lk, cc, io, sl>>

\* provider.set_parameters(params)
SetParameters ==
    /\ pp.calls < MaxParamCalls
    /\ \E arg \in Arguments :
        LET st == set_parameters(pp, arg)
        IN  pp' = [st EXCEPT !.calls = @ + 1,
                             !.copied = IF st.out.kind = "ok" THEN Empty ELSE @]
    /\ UNCHANGED <<gvars, lk, cc, io, sl>>

\* provider.update_parameters(params)
UpdateParameters ==
    /\ pp.calls < MaxParamCalls
    /\ \E arg \in Arguments :
        LET st == update_parameters(pp, arg)
        IN  pp' = [st EXCEPT !.calls = @ + 1,
                             !.copied = IF st.out.kind = "ok"
                                        THEN Without(@, DOMAIN arg.dict) ELSE @]
    /\ UNCHANGED <<gvars, lk, cc, io, sl>>

NextProvider ==
    \/ GetItem
    \/ SetItem
    \/ SetDefault
    \/ MutateDefault
    \/ SetParameters
    \/ UpdateParameters

SpecProvider == InitProvider /\ [][NextProvider]_vars

----------------------------------------------------------------------------
(* ParameterProvider and the objects of its caller                         *)

\* At most this many calls on the provider and changes by the caller.
MaxCallerSteps == 3

\* What the caller holds: nothing, an object it passed to the provider, a
\* dict it passed, or the dict get_parameters returned. A dict is an object
\* too: id is the dict, items what its keys are bound to.
HoldsNothing == [kind |-> "none"]

HeldValue(obj) == [kind |-> "value", obj |-> obj]

HeldDict(id, items) == [kind |-> "dict", id |-> id, items |-> items]

\* A dict the caller builds: a new dict, id, with a new object per key.
CallerDict(id, contents) ==
    HeldDict(id, [key \in DOMAIN contents |-> Object(id + Rank(key), contents[key])])

\* The contents the caller may give: one content per key of any set of
\* the keys T, dt, potential.
CallerContents == UNION {[S -> Contents] : S \in SUBSET ArgKeys}

\* get_parameters(): a deep copy of the dict of the provider.
provider_get_parameters(st) ==
    [kind |-> "returned", id |-> st.fresh + Len(KeyOrder),
     items |-> deepcopyDict(st.params, st.fresh)]

\* The provider before any call; self is the dict that _params is.
InitIsolation ==
    /\ pp = NewProvider @@ [self |-> 0, held |-> HoldsNothing]
    /\ GradientUnused
    /\ lk = Unused
    /\ sl = Unused
    /\ cc = Unused
    /\ io = Unused

\* v = ...; provider[key] = v
PassItem ==
    /\ pp.calls < MaxCallerSteps
    /\ \E key \in ArgKeys, c \in Contents :
        LET v == Object(pp.fresh, c)
            st == __setitem__([pp EXCEPT !.fresh = @ + 1], key, v)
        IN  pp' = [st EXCEPT !.calls = @ + 1, !.out = NoCall,
                             !.held = HeldValue(v)]
    /\ UNCHANGED <<gvars, lk, cc, io, sl>>

\* d = {...}; provider.set_parameters(d): _params is a new dict.
PassSet ==
    /\ pp.calls < MaxCallerSteps
    /\ \E contents \in CallerContents :
        LET d == CallerDict(pp.fresh, contents)
            s0 == [pp EXCEPT !.fresh = @ + Len(KeyOrder) + 1]
            st == set_parameters(s0, [type |-> "dict", dict |-> d.items])
        IN  pp' = [st EXCEPT !.calls = @ + 1, !.out = NoCall,
                             !.self = st.fresh, !.fresh = @ + 1,
                             !.held = d]
    /\ UNCHANGED <<gvars, lk, cc, io, sl>>

\* d = {...}; provider.update_parameters(d)
PassUpdate ==
    /\ pp.calls < MaxCallerSteps
    /\ \E contents \in CallerContents :
        LET d == CallerDict(pp.fresh, contents)
            s0 == [pp EXCEPT !.fresh = @ + Len(KeyOrder) + 1]
            st == update_parameters(s0, [type |-> "dict", dict |-> d.items])
        IN  pp' = [st EXCEPT !.calls = @ + 1, !.out = NoCall, !.held = d]
    /\ UNCHANGED <<gvars, lk, cc, io, sl>>

\* d = provider.get_parameters()
GetParameters ==
    /\ pp.calls < MaxCallerSteps
    /\ pp' = [pp EXCEPT !.calls = @ + 1, !.out = NoCall,
                        !.fresh = @ + Len(KeyOrder) + 1,
                        !.held = provider_get_parameters(pp)]
    /\ UNCHANGED <<gvars, lk, cc, io, sl>>

\* The caller holds a dict: one it passed or one get_parameters returned.
HoldsDict == pp.held.kind \in {"dict", "returned"}

\* The ids of the objects the caller holds.
HeldIds ==
    IF pp.held.kind = "value" THEN {pp.held.obj.id}
    ELSE IF HoldsDict
         THEN {pp.held.items[key].id : key \in DOMAIN pp.held.items}
         ELSE {}

\* What the caller holds after the object id was changed in place to c.
HeldChanged(held, id, c) ==
    IF held.kind = "value"
    THEN HeldValue(IF held.obj.id = id THEN Object(id, c) ELSE held.obj)
    ELSE [held EXCEPT !.items = Changed(@, id, c)]

\* The caller changes an object it holds in place: whoever holds that
\* object sees the new content.
MutateHeldObject ==
    /\ pp.calls < MaxCallerSteps
    /\ \E id \in HeldIds, c \in Contents :
        /\ HeldChanged(pp.held, id, c) # pp.held
        /\ pp' = [pp EXCEPT !.params = Changed(@, id, c),
                            !.held = HeldChanged(@, id, c),
                            !.calls = @ + 1,
                            !.out = [op |-> "mutate", old |-> pp.params]]
    /\ UNCHANGED <<gvars, lk, cc, io, sl>>

\* The caller binds a key of a dict it holds to a new object, d[key] = v,
\* or removes it, del d[key]: the provider sees it when that dict is the
\* dict _params.
MutateHeldDict ==
    /\ pp.calls < MaxCallerSteps
    /\ HoldsDict
    /\ \/ \E key \in ArgKeys, c \in Contents :
            LET v == Object(pp.fresh, c)
            IN  pp' = [pp EXCEPT
                         !.params = IF pp.self = pp.held.id
                                    THEN Bind(@, key, v) ELSE @,
                         !.held = [@ EXCEPT !.items = Bind(@, key, v)],
                         !.fresh = @ + 1,
                         !.calls = @ + 1,
                         !.out = [op |-> "mutate", old |-> pp.params]]
       \/ \E key \in DOMAIN pp.held.items :
            pp' = [pp EXCEPT
                     !.params = IF pp.self = pp.held.id
                                THEN Without(@, {key}) ELSE @,
                     !.held = [@ EXCEPT !.items = Without(@, {key})],
                     !.calls = @ + 1,
                     !.out = [op |-> "mutate", old |-> pp.params]]
    /\ UNCHANGED <<gvars, lk, cc, io, sl>>

NextIsolation ==
    \/ PassItem
    \/ PassSet
    \/ PassUpdate
    \/ GetParameters
    \/ MutateHeldObject
    \/ MutateHeldDict

SpecIsolation == InitIsolation /\ [][NextIsolation]_vars

----------------------------------------------------------------------------
(* SimulationLoopFourier.run_simulation                                    *)

\* nsteps is drawn from 0 .. MaxSteps.
MaxSteps == 3

\* self._tm.is_event(i): whether the schedule has an event at timestep i.
is_event(events, i) == i \in events

\* The call is not recorded.
CallSkipped(s, name) == s

\* A call of a method of the propagator or of the IOManager, recorded in
\* the order of the calls.
Call(s, name) == [s EXCEPT !.trace = Append(@, name)]

\* run_simulation is entered: nsteps = self._tm.compute_number_timesteps()
\* is any number, and the schedule has events at any of the timesteps.
InitLoop ==
    /\ \E nsteps \in 0 .. MaxSteps :
        \E events \in SUBSET (1 .. nsteps) :
            sl = [pc |-> "start", nsteps |-> nsteps, events |-> events,
                  i |-> 0, trace |-> <<>>]
    /\ GradientUnused
    /\ lk = Unused
    /\ cc = Unused
    /\ io = Unused
    /\ pp = Unused

\* Line 101: self.propagator.pre_propagate(), then the loop starts at 1.
FirstPrePropagate ==
    /\ sl.pc = "start"
    /\ sl' = [Call(sl, "pre_propagate") EXCEPT !.i = 1, !.pc = "loop"]
    /\ UNCHANGED <<gvars, lk, cc, io, pp>>

\* Lines 105-108: the loop has a timestep left, self.propagator.propagate()
Propagate ==
    /\ sl.pc = "loop"
    /\ sl.i <= sl.nsteps
    /\ sl' = [Call(sl, "propagate") EXCEPT !.pc = "test"]
    /\ UNCHANGED <<gvars, lk, cc, io, pp>>

\* Line 111, no event at timestep i: the next iteration.
NoEvent ==
    /\ sl.pc = "test"
    /\ ~is_event(sl.events, sl.i)
    /\ sl' = [sl EXCEPT !.i = @ + 1, !.pc = "loop"]
    /\ UNCHANGED <<gvars, lk, cc, io, pp>>

\* Lines 111-113, an event at timestep i: self.propagator.post_propagate()
EventPostPropagate ==
    /\ sl.pc = "test"
    /\ is_event(sl.events, sl.i)
    /\ sl' = [Call(sl, "post_propagate") EXCEPT !.pc = "save"]
    /\ UNCHANGED <<gvars, lk, cc, io, pp>>

\* Line 114: self.IOManager.save_wavefunction(..., timestep=i)
SaveWavefunction ==
    /\ sl.pc = "save"
    /\ sl' = [Call(sl, "save_wavefunction") EXCEPT !.pc = "resume"]
    /\ UNCHANGED <<gvars, lk, cc, io, pp>>

\* Line 116: self.propagator.pre_propagate(), then the next iteration.
EventPrePropagate ==
    /\ sl.pc = "resume"
    /\ sl' = [Call(sl, "pre_propagate") EXCEPT !.i = @ + 1, !.pc = "loop"]
    /\ UNCHANGED <<gvars, lk, cc, io, pp>>

\* Lines 105 and 119: the loop is over, self.propagator.post_propagate(),
\* and run_simulation returns.
LastPostPropagate ==
    /\ sl.pc = "loop"
    /\ sl.i > sl.nsteps
    /\ sl' = [Call(sl, "post_propagate") EXCEPT !.pc = "done"]
    /\ UNCHANGED <<gvars, lk, cc, io, pp>>

NextLoop ==
    \/ FirstPrePropagate
    \/ Propagate
    \/ NoEvent
    \/ EventPostPropagate
    \/ SaveWavefunction
    \/ EventPrePropagate
    \/ LastPostPropagate

SpecLoop == InitLoop /\ [][NextLoop]_vars

----------------------------------------------------------------------------
(* Properties                                                              *)

Started == pc # "idle"

\* K, Ke and cnew are prepared and the loop has not run yet; the call never
\* assigns K or Ke again.
Prepared == pc = "loop" /\ log = <<>>

\* The source coefficient of node k, read from the caller's array through
\* the position map of the caller's shape.
SourceCoeff(k) == packet.coeffs[packet.K.lima[k]]

LogSet == {log[i] : i \in DOMAIN log}

\* The unit increments of the nodes of a shape.
Increments(shape) ==
    {NodeAdd(k, d) : k \in shape.nodes, d \in Dims(shape.D)}

\* C1 (closure): once apply_gradient_component has computed Ke = K.extend(),
\* for every node k of K and every dimension d the node k + e_d is a node
\* of Ke.
C1_Closure ==
    Started => \A k \in K.nodes : \A d \in Dims(K.D) : contains(Ke, NodeAdd(k, d))

\* A boundary node of K whose increment exists only in Ke.
C1_Witness ==
    /\ pc = "loop"
    /\ \E k \in K.nodes : \E d \in Dims(K.D) :
          ~contains(K, NodeAdd(k, d)) /\ contains(Ke, NodeAdd(k, d))

\* C2 (non-shrinking): every node of K is a node of Ke = extend(K), and the
\* nodes of the family shape K descends from are still nodes of K and of Ke
\* after repeated extension.
C2_NonShrinking ==
    Started => /\ K.nodes \subseteq Ke.nodes
               /\ base.nodes \subseteq K.nodes
               /\ base.nodes \subseteq Ke.nodes

\* A shape that was extended before, extended again, with new nodes each time.
C2_Witness ==
    /\ pc = "loop"
    /\ base.nodes # K.nodes
    /\ K.nodes # Ke.nodes
    /\ base.nodes # {}

\* C3 (minimality): the node set of Ke is exactly the nodes of K united with
\* the unit increments of the nodes of K.
C3_Minimality ==
    Started => Ke.nodes = K.nodes \cup Increments(K)

\* A two-dimensional rectangle, whose bounding box grown by one has a corner
\* that is no unit increment of a node.
C3_Witness ==
    /\ pc = "loop"
    /\ K.D = 2
    /\ \E k \in K.nodes : k[1] > 0 /\ k[2] > 0
          /\ ~contains(Ke, NodeAdd(NodeAdd(k, 0), 1))
          /\ contains(Ke, NodeAdd(k, 0)) /\ contains(Ke, NodeAdd(k, 1))

\* The terms the row of node j gathers: the central term of j, the backward
\* term of each j + e_d in K, the forward term of each j - e_d in K.
GatherTerms(j) ==
    (IF contains(packet.K, j) THEN {<< <<"p", 0, 1>>, SourceCoeff(j) >>} ELSE {})
    \cup {<< <<"Pbar", d, j[d + 1] + 1>>, SourceCoeff(NodeAdd(j, d)) >> :
            d \in {e \in Dims(packet.K.D) : contains(packet.K, NodeAdd(j, e))}}
    \cup {<< <<"P", d, j[d + 1]>>, SourceCoeff(NodeSub(j, d)) >> :
            d \in {e \in Dims(packet.K.D) :
                      j[e + 1] > 0 /\ contains(packet.K, NodeSub(j, e))}}

\* Their sum, as a row.
GatherRow(j) ==
    LET nz == {t \in GatherTerms(j) : t[2] # 0}
    IN  [key \in {t[1] : t \in nz} |-> (CHOOSE t \in nz : t[1] = key)[2]]

\* The statements a complete scatter over K executes.
ScatterWrites ==
    {<<"central", k, 0, k>> : k \in packet.K.nodes}
    \cup UNION {{<<"backward", k, d, NodeSub(k, d)>> :
                    d \in {e \in Dims(packet.K.D) :
                              k[e + 1] > 0 /\ contains(packet.K, NodeSub(k, e))}}
                 : k \in packet.K.nodes}
    \cup {<<"forward", k, d, NodeAdd(k, d)>> :
            k \in packet.K.nodes, d \in Dims(packet.K.D)}

\* C4 (scatter equals gather): the call returns, and in the returned array
\* the row of every node j of the extended shape, addressed through the
\* extended shape's position map, is the sum of the central, backward and
\* forward terms j gathers and nothing else; every statement of the scatter
\* ran exactly once.
C4_ScatterEqualsGather ==
    /\ pc # "failed"
    /\ pc = "done" =>
        /\ \A j \in result[1].nodes :
              result[2].rows[result[1].lima[j]] = GatherRow(j)
        /\ LogSet = ScatterWrites
        /\ Len(log) = Cardinality(ScatterWrites)

\* A returned row that sums contributions of two different source nodes, in
\* two dimensions, where the two shapes number the shared nodes differently.
C4_Witness ==
    /\ pc = "done"
    /\ K.D = 2
    /\ \E k \in K.nodes : K.lima[k] # Ke.lima[k]
    /\ \E j \in Ke.nodes : Cardinality(DOMAIN result[2].rows[Ke.lima[j]]) >= 2

\* C5 (row count): the call never fails, the array it allocates and returns
\* has exactly Ke.get_basis_size() rows and D columns, one row per node of
\* the extended shape, and it returns that extended shape.
C5_RowCount ==
    /\ pc # "failed"
    /\ Started =>
        /\ cnew.shape = <<get_basis_size(Ke), packet.K.D>>
        /\ DOMAIN cnew.rows = {Ke.lima[j] : j \in Ke.nodes}
        /\ Cardinality(DOMAIN cnew.rows) = Cardinality(K.nodes \cup Increments(K))
    /\ pc = "done" => result = <<Ke, cnew>> /\ Ke.nodes = packet.K.nodes \cup Increments(packet.K)

\* A returned array with more rows than the source array.
C5_Witness ==
    /\ pc = "done"
    /\ result[2].shape[1] > Cardinality(DOMAIN packet.coeffs)
    /\ result[2].shape[2] = 2

\* C6 (forward neighbours): for every node k of K the forward neighbours
\* located in Ke are <<d, k + e_d>> for every dimension d; when the call
\* returns every node of K has scattered exactly D forward terms, one per
\* dimension; every forward statement executed addressed a node of Ke, and
\* no lookup failed.
C6_ForwardInExtended ==
    /\ pc # "failed"
    /\ Prepared =>
        \A k \in K.nodes :
            get_neighbours(Ke, k, "forward")
                = [i \in 1 .. K.D |-> <<i - 1, NodeAdd(k, i - 1)>>]
    /\ pc = "done" =>
        \A k \in K.nodes :
            /\ {e \in LogSet : e[1] = "forward" /\ e[2] = k}
                  = {<<"forward", k, d, NodeAdd(k, d)>> : d \in Dims(K.D)}
            /\ Cardinality({i \in DOMAIN log : log[i][1] = "forward" /\ log[i][2] = k}) = K.D
    /\ \A e \in LogSet : e[1] = "forward" => contains(Ke, e[4])

\* The call returned and a boundary node has scattered its forward term to a
\* node outside K.
C6_Witness ==
    /\ pc = "done"
    /\ K.D = 2
    /\ \E k \in K.nodes : \E d \in Dims(K.D) :
          /\ ~contains(K, NodeAdd(k, d))
          /\ <<"forward", k, d, NodeAdd(k, d)>> \in LogSet

\* The backward statements of node k when the neighbours are located in
\* the shape given.
BackwardWrites(shape, k) ==
    {<<"backward", k, d, NodeSub(k, d)>> :
        d \in {e \in Dims(shape.D) : k[e + 1] > 0 /\ contains(shape, NodeSub(k, e))}}

NeighbourDims(shape, k, selection) ==
    LET nbs == get_neighbours(shape, k, selection)
    IN  {nbs[i][1] : i \in DOMAIN nbs}

\* C8 (boundary skip): for every node k of the extended shape and every
\* dimension d with k[d] = 0, neither K nor Ke reports a backward neighbour
\* in dimension d; a dimension whose decremented node is absent from the
\* shape is left out; and apply executes no backward statement for a
\* dimension d with k[d] = 0 and raises no error.
C8_BoundarySkip ==
    /\ pc # "failed" /\ err = "none"
    /\ Prepared =>
        \A shape \in {K, Ke} : \A k \in Ke.nodes :
            NeighbourDims(shape, k, "backward")
                = {d \in Dims(K.D) : k[d + 1] > 0 /\ contains(shape, NodeSub(k, d))}
    /\ \A e \in LogSet : e[1] = "backward" => e[2][e[3] + 1] > 0

\* The call returned: a node on the boundary k[d] = 0 was visited, a node of
\* Ke has a decremented node that is absent from K, and backward terms were
\* written.
C8_Witness ==
    /\ pc = "done"
    /\ \E k \in K.nodes : \E d \in Dims(K.D) :
          k[d + 1] = 0 /\ <<"central", k, 0, k>> \in LogSet
    /\ \E k \in Ke.nodes : \E d \in Dims(K.D) :
          k[d + 1] > 0 /\ ~contains(K, NodeSub(k, d))
    /\ \E e \in LogSet : e[1] = "backward"

\* The scenario: the 1-D shape {0, 1, 2} with c = [1, 0, 0].
Scenario ==
    /\ packet.K = HyperCubicShape(<<3>>)
    /\ packet.coeffs = [i \in 0 .. 2 |-> IF i = 0 THEN 1 ELSE 0]

\* No source coefficient reaches the row of node j.
Unpopulated(j) ==
    /\ contains(packet.K, j) => SourceCoeff(j) = 0
    /\ \A d \in Dims(packet.K.D) :
          /\ contains(packet.K, NodeAdd(j, d)) => SourceCoeff(NodeAdd(j, d)) = 0
          /\ (j[d + 1] > 0 /\ contains(packet.K, NodeSub(j, d)))
                => SourceCoeff(NodeSub(j, d)) = 0

\* C9 (scenario): in the scenario the call returns the shape {0, 1, 2, 3}
\* and an array whose row of node 0 is 1 * p, whose row of node 1 is the
\* forward term w * sqrt(1) * 1 * P[:, 0] and whose rows of nodes 2 and 3
\* are zero; in general a returned row of node j is zero whenever c is zero
\* at j and at every node of K one unit vector away from j.
C9_Scenario ==
    /\ Scenario => pc # "failed"
    /\ (Scenario /\ pc = "done") =>
        /\ result[1].nodes = {<<0>>, <<1>>, <<2>>, <<3>>}
        /\ result[2].shape = <<4, 1>>
        /\ result[2].rows[result[1].lima[<<0>>]] = (<<"p", 0, 1>> :> 1)
        /\ result[2].rows[result[1].lima[<<1>>]] = (<<"P", 0, 1>> :> 1)
        /\ result[2].rows[result[1].lima[<<2>>]] = ZeroRow
        /\ result[2].rows[result[1].lima[<<3>>]] = ZeroRow
    /\ pc = "done" =>
        \A j \in result[1].nodes :
            Unpopulated(j) => result[2].rows[result[1].lima[j]] = ZeroRow

\* The scenario has returned.
C9_Witness ==
    /\ Scenario
    /\ pc = "done"
    /\ result[2].rows[1] # ZeroRow

\* position_of of a shape is total on the nodes, injective (as many
\* indices as nodes), and onto 0 .. size - 1.
Bijection(shape) ==
    /\ DOMAIN shape.lima = shape.nodes
    /\ Cardinality({shape.lima[k] : k \in shape.nodes}) = Cardinality(shape.nodes)
    /\ {shape.lima[k] : k \in shape.nodes} = 0 .. (get_basis_size(shape) - 1)

\* C10 (position bijection): the position maps of the family shape, of K
\* and of Ke (shapes after zero, one and two extensions) are bijections
\* onto 0 .. size - 1, and every read coeffs[K[k]] and every write
\* cnew[Ke[nb]] the call executed addressed an existing row.
C10_PositionBijection ==
    /\ pc # "failed"
    /\ pc = "idle" => Bijection(base) /\ Bijection(packet.K)
    /\ Prepared => Bijection(K) /\ Bijection(Ke)
    /\ \A e \in LogSet :
          /\ K.lima[e[2]] \in DOMAIN coeffs
          /\ Ke.lima[e[4]] \in DOMAIN cnew.rows

\* A shape extended twice whose last row has been written.
C10_Witness ==
    /\ pc = "done"
    /\ base.nodes # K.nodes
    /\ \E e \in LogSet : Ke.lima[e[4]] = get_basis_size(Ke) - 1
    /\ \E e \in LogSet : K.lima[e[2]] = get_basis_size(K) - 1

----------------------------------------------------------------------------
(* C11: the gradient and kinetic_energy never mutate their inputs.         *)

\* C11: from the moment apply_gradient_component is entered, through its
\* extension of K, its neighbour queries, every "+=" of the loop, its return
\* and the kinetic energy computed from the returned array, the caller's
\* wavepacket is what it was at the call: the same basis shape (node set,
\* size and position map) and the same source coefficient array; the shape
\* and the array the call reads through are still those objects.
C11_InputsUnchanged ==
    Started =>
        /\ packet = before
        /\ K = before.K
        /\ K.nodes = before.K.nodes
        /\ get_basis_size(K) = get_basis_size(before.K)
        /\ K.lima = before.K.lima
        /\ coeffs = before.coeffs

\* kinetic_energy has returned for a wavepacket with a nonzero coefficient,
\* after the loop extended the shape and wrote forward terms.
C11_Witness ==
    /\ pc = "observed"
    /\ ekin # <<>>
    /\ \E i \in DOMAIN before.coeffs : before.coeffs[i] # 0
    /\ \E i \in DOMAIN log : log[i][1] = "forward"
    /\ Ke.nodes # K.nodes

----------------------------------------------------------------------------
(* C12: no partial result.                                                 *)

\* C12: a call either runs the whole scatter and returns the pair (extended
\* shape, new array), or it fails: a failed call has returned nothing, no
\* kinetic energy was computed from it and the caller's wavepacket is as it
\* was at the call; whatever is returned comes from a loop that ran every
\* statement of the scatter exactly once, also when the loop failed after it
\* had filled part of the array.
C12_NoPartialResult ==
    /\ pc = "failed" =>
        /\ err # "none"
        /\ result = <<>>
        /\ ekin = <<>>
        /\ packet = before
    /\ result # <<>> =>
        /\ err = "none"
        /\ pc \in {"done", "observed"}
        /\ result = <<Ke, cnew>>
        /\ Ke = extend(before.K)
        /\ LogSet = ScatterWrites
        /\ Len(log) = Cardinality(ScatterWrites)
    /\ pc \in {"done", "observed"} => result # <<>>

\* The loop failed on a short coefficient array after it had written a
\* nonzero row.
C12_Witness ==
    /\ pc = "failed"
    /\ err = "IndexError"
    /\ log # <<>>
    /\ \E i \in DOMAIN cnew.rows : cnew.rows[i] # ZeroRow
    /\ result = <<>>

----------------------------------------------------------------------------
(* C13: lookups of missing nodes.                                          *)

\* C13: a position lookup fails with KeyError exactly when the shape does
\* not contain the node and returns an index in 0 .. size-1 exactly when it
\* does; after the lookup, failed or not, the shape is the shape it was.
C13_LookupFailure ==
    lk.out.kind # "none" =>
        /\ lk.out.kind = "KeyError" <=> ~contains(lk.given, lk.node)
        /\ lk.out.kind = "index" <=> contains(lk.given, lk.node)
        /\ lk.out.kind = "index" =>
               lk.out.value \in 0 .. (get_basis_size(lk.given) - 1)
        /\ lk.shape = lk.given

\* A failed lookup of a node that is a unit increment of a node of a
\* 2-dimensional shape: it lies in the extension, not in the shape.
C13_Witness ==
    /\ lk.out.kind = "KeyError"
    /\ lk.given.D = 2
    /\ lk.node \in extend(lk.given).nodes

----------------------------------------------------------------------------
(* C14: a shape is rebuilt from its stored description.                    *)

\* The shape objects that were saved into a group.
Given(group) ==
    {io.given[i].obj : i \in {j \in DOMAIN io.given : io.given[j].group = group}}

AllGiven == {io.given[i].obj : i \in DOMAIN io.given}

----------------------------------------------------------------------------
(* C15: shapes with equal node sets and their hashes.                      *)

\* C15 as stated: any two saved shapes with the same node set have the same
\* hash, whatever their descriptions and families.
C15_EqualNodesHashEqual ==
    \A S1, S2 \in AllGiven :
        S1.shape.nodes = S2.shape.nodes =>
            StructuralHash(S1) = StructuralHash(S2)

\* What holds of C15: any two saved shapes of the same family with the same
\* node set have the same hash, whichever instances they are.
C15_SameFamilyHashEqual ==
    \A S1, S2 \in AllGiven :
        (S1.descr.type = S2.descr.type /\ S1.shape.nodes = S2.shape.nodes) =>
            StructuralHash(S1) = StructuralHash(S2)

\* Two instances of one family with the same nodes were saved into one
\* group, which holds one entry for them.
C15_Witness ==
    \E i, j \in DOMAIN io.given :
        /\ i # j
        /\ io.given[i].group = io.given[j].group
        /\ io.given[i].obj.id # io.given[j].obj.id
        /\ io.given[i].obj.descr.type = io.given[j].obj.descr.type
        /\ io.given[i].obj.shape.nodes = io.given[j].obj.shape.nodes
        /\ Cardinality(io.given[i].obj.shape.nodes) > 1
        /\ Cardinality(DOMAIN io.file[io.given[i].group].basisshapes) = 1

----------------------------------------------------------------------------
(* C16: concurrent calls on a shared shape.                                *)

\* C16: whatever the interleaving of the calls that share one shape, a call
\* that has returned has returned exactly the pair it returns when it runs
\* alone on its coefficient array, no call fails, and the shared shape and
\* every caller's coefficient array are what they were.
C16_InterleavedCalls ==
    /\ cc.K = cc.given
    /\ \A i \in Callers :
          /\ cc.calls[i].pc # "failed"
          /\ cc.calls[i].coeffs = cc.calls[i].given
          /\ cc.calls[i].pc = "done" =>
                 cc.calls[i].result = Alone(cc.given, cc.calls[i].given)

\* Both calls returned different nonzero arrays for a 2-dimensional shape,
\* and one of them ran an iteration while the other was in the middle of
\* its loop.
C16_Witness ==
    /\ \A i \in Callers : cc.calls[i].pc = "done"
    /\ cc.overlap
    /\ cc.calls[1].result # cc.calls[2].result
    /\ cc.K.D = 2
    /\ \A i \in Callers : \E r \in DOMAIN cc.calls[i].result[2].rows :
            cc.calls[i].result[2].rows[r] # ZeroRow

----------------------------------------------------------------------------
(* C17: one stored entry per hash.                                         *)

\* The description that was saved first into a group under hash h.
FirstSaved(group, h) ==
    LET at == {i \in DOMAIN io.given :
                  /\ io.given[i].group = group
                  /\ StructuralHash(io.given[i].obj) = h}
        first == CHOOSE i \in at : \A j \in at : i <= j
    IN  get_description(io.given[first].obj)

\* C17: after any sequence of save_wavepacket_basisshapes and
\* save_inhomogwavepacket_basisshapes calls, the group basisshapes of each
\* wavepacket group holds exactly one entry per distinct hash saved into it,
\* named "basis_shape_" followed by the decimal hash, holding that hash and
\* the description that was saved first under it; a group no shape was
\* saved into is empty.
C17_OneEntryPerHash ==
    \A group \in DOMAIN io.file :
        LET store  == io.file[group].basisshapes
            hashes == {StructuralHash(S) : S \in Given(group)}
        IN  /\ DOMAIN store = {ShapeName(h) : h \in hashes}
            /\ Cardinality(DOMAIN store) = Cardinality(hashes)
            /\ \A h \in hashes :
                  /\ store[ShapeName(h)].data = <<h>>
                  /\ ParseInt(SubSeq(ShapeName(h), Len(NamePrefix) + 1,
                                     Len(ShapeName(h)))) = h
                  /\ store[ShapeName(h)].attrs = SaveAttrs(FirstSaved(group, h))

\* Two instances with one negative hash were saved into the inhomogeneous
\* group, which holds one entry, while the homogeneous group is empty.
C17_Witness ==
    /\ DOMAIN io.file = Groups
    /\ Len(io.given) = 2
    /\ \A i \in DOMAIN io.given : io.given[i].group = "wavepacket_inhomog"
    /\ StructuralHash(io.given[1].obj) = StructuralHash(io.given[2].obj)
    /\ StructuralHash(io.given[1].obj) < 0
    /\ io.given[1].obj.id # io.given[2].obj.id
    /\ Cardinality(DOMAIN io.file["wavepacket_inhomog"].basisshapes) = 1
    /\ DOMAIN io.file["wavepacket"].basisshapes = {}

----------------------------------------------------------------------------
(* C18: a saved wavepacket is loaded back.                                 *)

\* The calls of save_wavepacket that returned.
Returned == {i \in DOMAIN io.calls : io.calls[i].err = "none"}

\* The loaded wavepacket has the parameters (for the keys that were asked
\* for), the basis shapes and the coefficients of wavepacket wp.
SamePacket(loaded, wp, key) ==
    /\ loaded.Pi = get_parameters(wp, key)
    /\ Len(loaded.Ks) = Len(wp.Ks)
    /\ \A i \in DOMAIN wp.Ks :
          /\ loaded.Ks[i].descr = wp.Ks[i].descr
          /\ loaded.Ks[i].shape = wp.Ks[i].shape
    /\ loaded.coefficients = wp.coefficients

\* C18 as stated: on a block set up by add_wavepacket, after calls
\* save_wavepacket(packet_i, t_i, blockid=b) with pairwise different
\* timesteps, load_wavepacket(t_i, blockid=b) returns the parameters, basis
\* shapes and coefficients of packet_i.  Neither call names a key, so both
\* use their default.
C18_RoundTrip ==
    (/\ io.out.kind # "none"
     /\ io.out.key = KeyLong
     /\ \A i \in DOMAIN io.calls : io.calls[i].key = KeyLong
     /\ \A i, j \in DOMAIN io.calls :
            i # j => io.calls[i].timestep # io.calls[j].timestep)
    => \A i \in DOMAIN io.calls :
          io.calls[i].timestep = io.out.timestep =>
              /\ io.out.kind = "packet"
              /\ SamePacket(io.out.packet, io.calls[i].packet, io.out.key)

\* The keys add_wavepacket created datasets for.
StoredKeys ==
    IF "wavepacket" \in DOMAIN io.file
    THEN {n[1] : n \in DOMAIN io.file["wavepacket"].Pi.data}
    ELSE {}

\* What holds of C18: when the calls of save_wavepacket that returned have
\* pairwise different timesteps, load_wavepacket(t_i, blockid=b, key) with
\* keys that save_wavepacket call i wrote returns the parameters, basis
\* shapes and coefficients of packet_i, in whatever order the timesteps
\* were saved and however the basis size changed.
C18_RoundTripWhenSaved ==
    (/\ io.out.kind # "none"
     /\ KeySet(io.out.key) \subseteq StoredKeys
     /\ \A i, j \in Returned : i # j => io.calls[i].timestep # io.calls[j].timestep)
    => \A i \in Returned :
          (/\ io.calls[i].timestep = io.out.timestep
           /\ KeySet(io.out.key) \subseteq KeySet(io.calls[i].key)) =>
              /\ io.out.kind = "packet"
              /\ SamePacket(io.out.packet, io.calls[i].packet, io.out.key)

\* The first of two wavepackets was loaded back after a second one with a
\* smaller timestep and a larger 2-dimensional basis shape was saved.
C18_Witness ==
    /\ io.out.kind = "packet"
    /\ Returned = {1, 2}
    /\ io.out.timestep = io.calls[1].timestep
    /\ io.calls[2].timestep < io.calls[1].timestep
    /\ io.file["wavepacket"].D = 2
    /\ Len(io.calls[2].packet.coefficients[1]) > Len(io.calls[1].packet.coefficients[1])
    /\ SamePacket(io.out.packet, io.calls[1].packet, io.out.key)

\* C19 (layered lookup): provider[key] returns the stored value whenever key
\* is stored, without looking at GlobalDefaults and without changing the
\* stored parameters; when key is not stored but GlobalDefaults defines it,
\* a new object holding what the default holds is stored under key and
\* returned, and key in provider is true afterwards; when neither has key,
\* KeyError is raised and the stored parameters are unchanged; and a copy
\* taken from GlobalDefaults stays stored and is what later reads return,
\* whatever happens to the global default.
C19_LayeredLookup ==
    /\ pp.out.op = "getitem" =>
          LET key == pp.out.key
              old == pp.out.old
          IN  /\ key \in DOMAIN old =>
                    /\ pp.out.kind = "value"
                    /\ pp.out.value = old[key]
                    /\ ~pp.out.consulted
                    /\ pp.params = old
              /\ (key \notin DOMAIN old /\ key \in DOMAIN pp.defaults) =>
                    /\ pp.out.kind = "value"
                    /\ pp.out.value.content = pp.defaults[key].content
                    /\ pp.out.value.id # pp.defaults[key].id
                    /\ pp.params = Bind(old, key, pp.out.value)
                    /\ __contains__(pp, key)
              /\ (key \notin DOMAIN old /\ key \notin DOMAIN pp.defaults) =>
                    /\ pp.out.kind = "KeyError"
                    /\ pp.params = old
    /\ \A key \in DOMAIN pp.copied :
          /\ __contains__(pp, key)
          /\ pp.params[key] = pp.copied[key]
          /\ (pp.out.op = "getitem" /\ pp.out.key = key) =>
                pp.out.value = pp.copied[key]

\* A read returned the copy of a global default that an earlier read had
\* stored, after the global default was changed to hold something else.
C19_Witness ==
    /\ pp.out.op = "getitem"
    /\ pp.out.kind = "value"
    /\ ~pp.out.consulted
    /\ pp.out.key \in DOMAIN pp.copied
    /\ pp.out.key \in DOMAIN pp.defaults
    /\ pp.out.value = pp.copied[pp.out.key]
    /\ pp.defaults[pp.out.key].content # pp.out.value.content

\* The keys compute_parameters writes.
DerivedKeys == {"nsteps", "ncomponents"}

C20_WitnessTypeError ==
    /\ pp.out.op = "set_parameters"
    /\ pp.out.kind = "TypeError"
    /\ pp.out.old # Empty

Derived(key) ==
    IF key = "nsteps" THEN compute_number_timesteps(pp).value
    ELSE get_number_components(pp)

\* Whether compute_parameters writes a derived key.
Derives(key) ==
    IF key = "nsteps" THEN compute_number_timesteps(pp).err = "none"
    ELSE "potential" \in DOMAIN pp.params

C22_CopyIsolation ==
    /\ pp.out.op = "mutate" => pp.params = pp.out.old
    /\ \A key \in DOMAIN pp.params : pp.params[key].id \notin HeldIds
    /\ HoldsDict => pp.self # pp.held.id

\* The caller changed an object of the dict get_parameters returned, which
\* holds a key the provider stores with the content it had.
C22_Witness ==
    /\ pp.out.op = "mutate"
    /\ pp.held.kind = "returned"
    /\ pp.params # Empty
    /\ DOMAIN pp.held.items = DOMAIN pp.params
    /\ \E key \in DOMAIN pp.params :
          pp.held.items[key].content # pp.params[key].content

\* What a call of load_wavepacket_basisshapes returned, against what was
\* saved into its block: by a hash, the description saved under that hash
\* when a shape with it was saved there, and IndexError when the block
\* is set up and none was; with the_hash=None, one description per hash
\* saved there, under the integer hash.
LoadedAsSaved ==
    LET hashes == {StructuralHash(S) : S \in Given(io.out.group)}
    IN  /\ io.out.kind = "noshapes" => io.out.group \notin DOMAIN io.file
        /\ io.out.kind = "shape" =>
              /\ io.out.hash \in hashes
              /\ io.out.descr = FirstSaved(io.out.group, io.out.hash)
        /\ (io.out.kind = "error" /\ io.out.group \in DOMAIN io.file) =>
              /\ io.err = "IndexError"
              /\ io.out.hash \notin hashes
        /\ io.out.kind = "shapes" =>
              /\ DOMAIN io.out.descrs = hashes
              /\ \A h \in hashes : io.out.descrs[h] = FirstSaved(io.out.group, h)

C23_WitnessIndexError ==
    /\ io.out.kind = "error"
    /\ io.err = "IndexError"
    /\ io.file[io.out.group].basisshapes # Empty
    /\ \E group \in DOMAIN io.file :
          ShapeName(io.out.hash) \in DOMAIN io.file[group].basisshapes

\* The timesteps of the save_wavepacket calls that returned.
SavedTimesteps == {io.calls[i].timestep : i \in Returned}

\* C24 (referential integrity of stored hashes): after any sequence of
\* save_wavepacket calls, every hash recorded in basis_shape_hash for a
\* written timeslot and component names an entry of the group basisshapes,
\* and load_wavepacket does not raise IndexError for a timestep that a
\* save_wavepacket call that returned was given.
C24_ReferentialIntegrity ==
    /\ \A group \in DOMAIN io.file :
          LET g == io.file[group]
          IN  \A slot \in DOMAIN g.basis_shape_hash.rows :
                  slot <= g.coefficients.pointer =>
                      \A i \in 1 .. g.N :
                          ShapeName(g.basis_shape_hash.rows[slot][i])
                              \in DOMAIN g.basisshapes
    /\ (io.out.kind = "error" /\ io.out.timestep \in SavedTimesteps) =>
          io.err # "IndexError"

\* Two wavepackets over different basis shapes were saved; both timeslots
\* name their shape, and the first was loaded back.
C24_Witness ==
    /\ Returned = {1, 2}
    /\ io.out.kind = "packet"
    /\ io.out.timestep = io.calls[1].timestep
    /\ LET g == io.file["wavepacket"]
       IN  /\ g.coefficients.pointer = 2
           /\ g.basis_shape_hash.rows[1] # g.basis_shape_hash.rows[2]
           /\ Cardinality(DOMAIN g.basisshapes) = 2

\* The separate save calls that returned.
SavedOk == {i \in DOMAIN io.saved : io.saved[i].err = "none"}

\* C25 (timegrid consistency under independent pointers): after any
\* interleaving of save_wavepacket_parameters and
\* save_wavepacket_coefficients calls, each kind with pairwise different
\* timesteps, loading parameters (or coefficients) at timestep t returns
\* the values that were saved with timestep t.
C25_TimegridConsistent ==
    (/\ io.out.kind # "none"
     /\ \A i, j \in SavedOk :
            (i # j /\ io.saved[i].what = io.saved[j].what) =>
                io.saved[i].timestep # io.saved[j].timestep)
    => \A i \in SavedOk :
          (io.saved[i].what = io.out.what /\ io.saved[i].timestep = io.out.timestep) =>
              /\ io.out.kind = "loaded"
              /\ io.out.value = io.saved[i].value

\* What holds of C25: a save_wavepacket_parameters call that returns wrote
\* at the pointer of Pi, increased that pointer by one, left the pointer of
\* the coefficients alone and recorded its timestep in the time grid at
\* that slot; a save_wavepacket_coefficients call that returns did the
\* same with the pointer of the coefficients.
C25_OwnPointer ==
    [][(Len(io'.saved) = Len(io.saved) + 1 /\ io'.err = "none") =>
          LET g == io.file["wavepacket"]
              h == io'.file["wavepacket"]
              call == io'.saved[Len(io'.saved)]
          IN  IF call.what = "parameters"
              THEN /\ h.Pi.pointer = g.Pi.pointer + 1
                   /\ h.coefficients.pointer = g.coefficients.pointer
                   /\ h.timegrid.rows[g.Pi.pointer + 1] = call.timestep
                   /\ \A i \in DOMAIN call.value :
                         h.Pi.data[<<KeyShort[i]>>].rows[g.Pi.pointer + 1] = call.value[i]
              ELSE /\ h.coefficients.pointer = g.coefficients.pointer + 1
                   /\ h.Pi.pointer = g.Pi.pointer
                   /\ h.timegrid.rows[g.coefficients.pointer + 1] = call.timestep]_vars

\* Parameters were saved with one timestep, then coefficients with another,
\* and the parameters were asked for at their timestep.
C25_Witness ==
    /\ io.out.kind # "none"
    /\ io.out.what = "parameters"
    /\ SavedOk = {1, 2}
    /\ io.saved[1].what = "parameters"
    /\ io.saved[2].what = "coefficients"
    /\ io.saved[1].timestep # io.saved[2].timestep
    /\ io.out.timestep = io.saved[1].timestep

\* The calls of add_wavepacket and save_wavepacket made without a blockid.
WithoutBlockid == {i \in DOMAIN io.calls : io.calls[i].passed.given = NotPassed}

\* C26 (default data block agreement): add_wavepacket, save_wavepacket and
\* load_wavepacket called without a blockid all address the same data
\* block, and a wavepacket saved without a blockid at a timestep no other
\* save used, into a file whose add_wavepacket was called without a
\* blockid, is what load_wavepacket without a blockid returns for that
\* timestep, the three calls using one key.
C26_DefaultBlockAgreement ==
    /\ \A i, j \in WithoutBlockid : io.calls[i].path = io.calls[j].path
    /\ (io.out.kind # "none" /\ io.out.passed.given = NotPassed) =>
          /\ \A i \in WithoutBlockid : io.calls[i].path = io.out.path
          /\ \A i, j \in WithoutBlockid :
                (/\ io.calls[i].method = "add_wavepacket"
                 /\ io.calls[j].method = "save_wavepacket"
                 /\ i < j
                 /\ io.calls[i].key = io.calls[j].key
                 /\ io.out.key = io.calls[j].key
                 /\ io.out.timestep = io.calls[j].timestep
                 /\ \A k \in DOMAIN io.calls :
                       (k # j /\ io.calls[k].method = "save_wavepacket") =>
                           io.calls[k].timestep # io.calls[j].timestep)
                => /\ io.out.kind = "packet"
                   /\ SamePacket(io.out.packet, io.calls[j].packet, io.out.key)

\* What holds of C26: when add_wavepacket got no blockid or 0, the save
\* got blockid 0 and load_wavepacket got no blockid or 0, the three with
\* one key, the wavepacket saved at a timestep no other save used is what
\* load_wavepacket returns for that timestep.
C26_RoundTripWithBlockid ==
    io.out.kind # "none" =>
        \A i, j \in DOMAIN io.calls :
            (/\ io.calls[i].method = "add_wavepacket"
             /\ io.calls[j].method = "save_wavepacket"
             /\ i < j
             /\ io.calls[i].path = io.calls[j].path
             /\ io.out.path = io.calls[j].path
             /\ io.calls[i].err = "none"
             /\ io.calls[i].key = io.calls[j].key
             /\ io.out.key = io.calls[j].key
             /\ io.out.timestep = io.calls[j].timestep
             /\ \A k \in DOMAIN io.calls :
                   (/\ k # j
                    /\ io.calls[k].method = "save_wavepacket"
                    /\ io.calls[k].path = io.calls[j].path) =>
                       io.calls[k].timestep # io.calls[j].timestep)
            => /\ io.calls[j].passed.given # NotPassed
               /\ io.out.kind = "packet"
               /\ SamePacket(io.out.packet, io.calls[j].packet, io.out.key)

\* add_wavepacket, save_wavepacket and load_wavepacket were each called
\* without a blockid and with the same key.
C26_Witness ==
    /\ io.out.kind # "none"
    /\ io.out.passed.given = NotPassed
    /\ Len(io.calls) = 2
    /\ WithoutBlockid = {1, 2}
    /\ io.calls[1].method = "add_wavepacket"
    /\ io.calls[2].method = "save_wavepacket"
    /\ io.calls[1].key = io.calls[2].key
    /\ io.out.key = io.calls[2].key
    /\ io.out.timestep = io.calls[2].timestep

\* The positions of the trace that hold one of the names.
Positions(names) == {j \in DOMAIN sl.trace : sl.trace[j] \in names}

\* The last position before j that holds one of the names, or 0.
LastBefore(j, names) ==
    LET at == {x \in Positions(names) : x < j}
    IN  IF at = {} THEN 0 ELSE CHOOSE x \in at : \A y \in at : y <= x

Bracket == {"pre_propagate", "post_propagate"}

\* C27 (pre/post bracketing in run_simulation): for every nsteps >= 0 and
\* every event schedule, the calls of pre_propagate and post_propagate
\* alternate strictly, the first of them is pre_propagate and, once
\* run_simulation has returned, the last is post_propagate; every propagate
\* comes after a pre_propagate with no post_propagate in between; and every
\* save_wavefunction comes after a post_propagate with no propagate and no
\* pre_propagate in between.
C27_Bracketing ==
    /\ \A j \in Positions(Bracket) :
          LET last == LastBefore(j, Bracket)
          IN  IF last = 0 THEN sl.trace[j] = "pre_propagate"
              ELSE sl.trace[j] # sl.trace[last]
    /\ sl.pc = "done" =>
          /\ Positions(Bracket) # {}
          /\ sl.trace[Len(sl.trace)] = "post_propagate"
    /\ sl.pc # "start" =>
          /\ sl.trace # <<>>
          /\ sl.trace[1] = "pre_propagate"
    /\ \A j \in Positions({"propagate"}) :
          /\ LastBefore(j, Bracket) # 0
          /\ sl.trace[LastBefore(j, Bracket)] = "pre_propagate"
    /\ \A j \in Positions({"save_wavefunction"}) :
          LET last == LastBefore(j, Bracket \cup {"propagate"})
          IN  /\ last # 0
              /\ sl.trace[last] = "post_propagate"

\* run_simulation returned after at least two timesteps, the last of which
\* is an event and one of which is not.
C27_Witness ==
    /\ sl.pc = "done"
    /\ sl.nsteps >= 2
    /\ is_event(sl.events, sl.nsteps)
    /\ \E i \in 1 .. sl.nsteps : ~is_event(sl.events, i)
    /\ Cardinality(Positions({"save_wavefunction"})) = Cardinality(sl.events)

\* run_simulation returned with nsteps = 0: the only calls are one
\* pre_propagate and one post_propagate.
C27_WitnessNoSteps ==
    /\ sl.pc = "done"
    /\ sl.nsteps = 0
    /\ sl.trace = <<"pre_propagate", "post_propagate">>

============================================================================
